---- MODULE Spec2Model ----
(***************************************************************************)
(* HotDog: the simulation core of the grid snake game, in its two         *)
(* variants: src/index.tsx ("index") and src/unnamed/part_000 ("part").   *)
(*                                                                         *)
(* State is the set of React refs and React state cells the simulation    *)
(* reads and writes.  Sizes and durations that only set the scale of a    *)
(* run (grid size, level duration, foods per level) are scaled down so    *)
(* that walls, level-ups and food top-ups are reached inside the bounds;  *)
(* the arithmetic on them is the source's.  Times are in milliseconds;    *)
(* the countdown timeLeftRef is kept in milliseconds too (the source      *)
(* keeps seconds as a float).                                             *)
(***************************************************************************)
EXTENDS Integers, Sequences, FiniteSets, TLC

VARIABLES
    variant,              \* "index" (src/index.tsx) or "part" (src/unnamed/part_000)
    gameState,            \* React state gameState (latest value set)
    gameStateRef,         \* gameStateRef.current (copied by an effect after render)
    score, scoreRef,      \* React state score / scoreRef.current
    level, levelRef,      \* React state level / levelRef.current
    timeLeftRef,          \* countdown, in ms
    snakeRef,             \* sequence of cells, head first
    directionRef,
    moveQueueRef,         \* sequence of pending directions
    foodsRef,             \* sequence of [x, z, type]
    powerUpRef,           \* NoPowerUp or [x, z, type]
    powerUpMeshRef,       \* TRUE iff powerUpMeshRef.current is non-null
    ghostModeEndTimeRef,
    speedBoostEndTimeRef,
    dogPulseEndTimeRef,
    lastMoveTimeRef,
    moveIntervalRef,
    baseLevelSpeedRef,
    levelStartScoreRef,
    clock,                \* the frame timestamp (performance timeline)
    timers,               \* pending setTimeout callbacks: set of [kind, due]
    frames,               \* number of frame callbacks so far
    inputs,               \* number of key, pointer and click events so far
    user,                 \* which events this run's user produces
    seed,                 \* which stream of Math.random() values this run gets
    rngPos,               \* position in that stream
    budgetExhausted,      \* history: some getRandomPosition call used up its tries
    highScores,           \* React state highScores: a JSON value
    storage,              \* localStorage item 'hotdog_highscores'
    playerName,           \* React state playerName: a sequence of characters
    startup,              \* "pending" before the initialization effect, then
                          \* "done", or "failed" when the effect or a render threw
    fx,                   \* the effect lists of src/index.tsx (particles, flying
                          \* meshes, snake meshes), or Untracked in the runs that
                          \* do not follow them
    saves,                \* history: entries saved since the last game over
    occupiedArg,          \* the argument of the last getRandomPosition call made alone
    placed,               \* what that call returned
    ev                    \* history: what the last step did

vars == << variant, gameState, gameStateRef, score, scoreRef, level, levelRef,
           timeLeftRef, snakeRef, directionRef, moveQueueRef, foodsRef,
           powerUpRef, powerUpMeshRef, ghostModeEndTimeRef,
           speedBoostEndTimeRef, dogPulseEndTimeRef, lastMoveTimeRef,
           moveIntervalRef, baseLevelSpeedRef, levelStartScoreRef, clock,
           timers, frames, inputs, user, seed, rngPos, budgetExhausted,
           highScores, storage, playerName, startup, saves, occupiedArg,
           placed, fx, ev >>

\* The leaderboard and the placement called alone: what the simulation
\* never writes, but for the name the crash of src/index.tsx clears.
boardVars == << highScores, storage, startup, saves >>
placeVars == << occupiedArg, placed >>

---------------------------------------------------------------------------
(* Bounds *)

\* Half of GRID_SIZE (15 in the source); the grid is [-HalfGrid, HalfGrid).
HalfGrid == 5
\* LEVEL_DURATION in seconds (25 in the source).
LevelSeconds == 1
\* Foods per level (5 in the source, levelRef.current * 5).
FoodsPerLevel == 2
\* The longest queue explored: a push the code would make onto a queue of
\* this length is not taken.
MaxQueue == 4
\* Frames per behaviour.
MaxFrames == 7
\* Key, pointer and click events per behaviour.
MaxInputs == 4
\* Highest level explored.
MaxLevel == 2
\* Date.now() - frame timestamp (the epoch offset of the wall clock).
EpochOffset == 1
\* Tries of getRandomPosition before it gives up (100 in the source).
TryBudget == 8
\* The level whose end a late run starts from.
LateLevel == 10
\* The life a particle starts with, in thousandths (1.0 in the source).
ParticleLife == 60
\* The progress at which a flying mesh is removed, in hundredths (1 in the
\* source).
FlightEnd == 20
\* Updates of a crash particle before it can be found below y = -5 (23 in
\* the source: gravity 0.02 per update from y = 0.5).
FallFrames == 1

---------------------------------------------------------------------------
(* Constants of the program *)

GRID_SIZE == 2 * HalfGrid
LEVEL_DURATION == LevelSeconds

Variants == {"index", "part"}
GameStates == {"START", "PLAYING", "PAUSED", "LEVEL_TRANSITION", "GAME_OVER"}
PowerUpTypes == {"MUSTARD", "GHOST", "BURGER"}
FoodTypes == {"HOTDOG", "FRIES"}

Pos(x, z) == [x |-> x, z |-> z]
UP == Pos(0, -1)
DOWN == Pos(0, 1)
LEFT == Pos(-1, 0)
RIGHT == Pos(1, 0)
Directions == {UP, DOWN, LEFT, RIGHT}
Neg(d) == Pos(-d.x, -d.z)

NoPowerUp == [type |-> "none"]

\* Elapsed time between two frames (a throttled page: every frame is due
\* for a tick).
Deltas == {5000}
FineDeltas == {100, 5000}

\* Math.random(): the run draws its values, in hundredths, from one of these
\* streams (read cyclically).  Only the draws the simulation reads are in the
\* stream: two per candidate cell, one per food type, one per power-up chance,
\* one per power-up type.
Tapes == <<
    << 50, 60, 90, 80, 80, 90, 10, 50, 50, 50, 35, 35, 90 >>,
    << 50, 45, 90, 45, 45, 90, 45, 50, 90, 90, 80, 80, 90, 20, 35, 50, 50,
       35, 35, 90, 90 >>,
    << 50, 50, 50, 50, 20, 50, 20, 50 >>,
    << 80, 80, 90, 30, 30, 90, 10, 50, 60, 90 >>,
    << 50, 45, 90, 50, 35, 90, 70, 70, 90, 10, 80, 80, 10, 60, 60, 90, 10,
       20, 20, 50 >>,
    << 50, 60, 90, 80, 80, 90, 90, 20, 20, 90, 10, 50, 60, 10 >>,
    << 50, 45, 90, 80, 80, 90, 20, 20, 90, 10, 50, 45, 10 >>,
    << 55, 65, 20, 5, 5, 90, 15, 5, 90, 25, 5, 20, 35, 5, 90, 45, 5, 90,
       55, 5, 90, 65, 5, 90, 75, 5, 90, 85, 5, 90, 95, 5, 90, 5, 15, 90,
       15, 15, 90, 25, 15, 90, 35, 15, 90, 45, 15, 90, 55, 15, 90, 65, 15, 90,
       75, 15, 90, 85, 15, 90, 95, 15, 90, 5, 25, 90, 10, 55, 55, 90, 95, 95,
       90, 85, 95, 90 >>
>>

\* The streams the runs that start at the START screen draw from; the last
\* stream is the one of the late run, and the two before it are the ones
\* that draw, for a power-up, the cell the head enters on the first tick
\* (the first in src/index.tsx, the second in part_000).
GameSeeds == 1..(Len(Tapes) - 3)
HeadSeeds == {Len(Tapes) - 2, Len(Tapes) - 1}
LateSeed == Len(Tapes)

\* The user of a run: one who steers with the keyboard, one who steers with
\* the touch buttons, one who works the transport controls.
Users == {"keys", "touch", "modes"}
UserKeys ==
    [keys |-> {"F2", "ArrowUp", "ArrowDown", "ArrowLeft", "ArrowRight"},
     touch |-> {"F2"},
     modes |-> {"F2", "F3", "Space"}]
UserTouches ==
    [keys |-> {}, touch |-> {UP, DOWN, LEFT, RIGHT}, modes |-> {DOWN}]
UserClicks ==
    [keys |-> {}, touch |-> {}, modes |-> {"retryLevel", "mainMenu"}]

DateNow == clock + EpochOffset

\* A maximum that forgets its first argument: an interval without floor.
MaxUnfloored(a, b) == b

Max(a, b) == IF a >= b THEN a ELSE b

SamePos(p, q) == p.x = q.x /\ p.z = q.z
CellOf(r) == Pos(r.x, r.z)
SeqCells(s) == {CellOf(s[i]) : i \in 1..Len(s)}

---------------------------------------------------------------------------
(* Helper functions *)

Random(pos) == Tapes[seed][pos]
Advance(pos) == (pos % Len(Tapes[seed])) + 1

\* Math.floor(Math.random() * GRID_SIZE) - GRID_SIZE / 2
RandomCoord(pos) == ((Random(pos) * GRID_SIZE) \div 100) - (GRID_SIZE \div 2)

Occupies(occupied, p) == \E q \in occupied : SamePos(q, p)

\* One candidate cell of getRandomPosition: { x: rand(), z: rand() }.
Candidate(pos) == Pos(RandomCoord(pos), RandomCoord(Advance(pos)))

\* getRandomPosition(occupied), reading the stream from position pos: the
\* do-while loop draws a candidate until one is free or tries reaches the
\* budget.
\* ex tells that the cell returned is occupied, tries how many candidates
\* were drawn.
\* A search that takes its first candidate whatever it holds.
getRandomPositionOnce(occupied, pos, tries) ==
    [pos |-> Candidate(pos), rng |-> Advance(Advance(pos)),
     ex |-> Occupies(occupied, Candidate(pos)), tries |-> tries + 1]

RECURSIVE getRandomPositionLoop(_, _, _)
getRandomPositionLoop(occupied, pos, tries) ==
    IF Occupies(occupied, Candidate(pos)) /\ tries + 1 < TryBudget
    THEN getRandomPositionLoop(occupied, Advance(Advance(pos)), tries + 1)
    ELSE [pos |-> Candidate(pos), rng |-> Advance(Advance(pos)),
          ex |-> Occupies(occupied, Candidate(pos)), tries |-> tries + 1]

getRandomPosition(occupied, pos) == getRandomPositionLoop(occupied, pos, 0)

PowerUpCells(pu) == IF pu = NoPowerUp THEN {} ELSE {CellOf(pu)}

\* A reset that puts a one-cell snake at the origin in both variants.
InitialSnakeAtOrigin(v) == << Pos(0, 0) >>

InitialSnake(v) ==
    IF v = "index" THEN << Pos(0, 2), Pos(0, 3), Pos(0, 4) >> ELSE << Pos(0, 0) >>

RemoveAt(s, i) == SubSeq(s, 1, i - 1) \o SubSeq(s, i + 1, Len(s))

\* foodsRef.current.findIndex(f => f.x === p.x && f.z === p.z); 0 for -1.
FindFoodIndex(foods, p) ==
    IF \E i \in 1..Len(foods) : SamePos(foods[i], p)
    THEN CHOOSE i \in 1..Len(foods) :
            /\ SamePos(foods[i], p)
            /\ \A j \in 1..(i - 1) : ~SamePos(foods[j], p)
    ELSE 0

\* The food pushed at the cell r found: Math.random() < 0.25 makes it FRIES.
FoodAt(r) ==
    [x |-> r.pos.x, z |-> r.pos.z,
     type |-> IF Random(r.rng) < 25 THEN "FRIES" ELSE "HOTDOG"]

\* What a spawn leaves: the foods, the power-up and its mesh, the position
\* in the random stream, and whether a placement ran out of tries.
Spawned(foods, pu, mesh, rng, ex) ==
    [foods |-> foods, powerUp |-> pu, mesh |-> mesh, rng |-> rng, ex |-> ex]

\* The type spawnPowerUp of src/index.tsx draws: rand < 0.4 MUSTARD,
\* rand < 0.7 GHOST, else BURGER.
powerUpTypeIndex(rand) ==
    IF rand < 40 THEN "MUSTARD" ELSE IF rand < 70 THEN "GHOST" ELSE "BURGER"

\* spawnPowerUp of src/index.tsx once its cell r is found.
placePowerUpIndex(foods, ex, r) ==
    Spawned(foods,
            [x |-> r.pos.x, z |-> r.pos.z, type |-> powerUpTypeIndex(Random(r.rng))],
            TRUE, Advance(r.rng), ex \/ r.ex)

\* spawnPowerUp of src/index.tsx: a cell free of snake and foods, then the type.
spawnPowerUpIndex(snake, foods, pos, ex) ==
    placePowerUpIndex(foods, ex,
                      getRandomPosition(SeqCells(snake) \cup SeqCells(foods), pos))

\* The while loop of spawnFood of src/index.tsx: one food per round until
\* desiredCount foods are live.
RECURSIVE spawnFoodLoop(_, _, _, _, _, _)
RECURSIVE spawnFoodRound(_, _, _, _, _, _)
spawnFoodRound(foods, snake, pu, desiredCount, ex, r) ==
    spawnFoodLoop(Append(foods, FoodAt(r)), snake, pu, desiredCount,
                  Advance(r.rng), ex \/ r.ex)

spawnFoodLoop(foods, snake, pu, desiredCount, pos, ex) ==
    IF Len(foods) >= desiredCount
    THEN [foods |-> foods, rng |-> pos, ex |-> ex]
    ELSE spawnFoodRound(foods, snake, pu, desiredCount, ex,
                        getRandomPosition(SeqCells(snake) \cup SeqCells(foods)
                                              \cup PowerUpCells(pu), pos))

\* The end of spawnFood of src/index.tsx, after the loop left f: with a 30%
\* chance spawn a power-up if none is live.
maybeSpawnPowerUpIndex(f, snake, pu, mesh) ==
    IF pu = NoPowerUp
    THEN IF Random(f.rng) < 30
         THEN spawnPowerUpIndex(snake, f.foods, Advance(f.rng), f.ex)
         ELSE Spawned(f.foods, pu, mesh, Advance(f.rng), f.ex)
    ELSE Spawned(f.foods, pu, mesh, f.rng, f.ex)

\* spawnFood of src/index.tsx: top the foods up to levelRef.current * 5.
spawnFoodIndex(foods, snake, pu, mesh, lvlRef, pos) ==
    maybeSpawnPowerUpIndex(
        spawnFoodLoop(foods, snake, pu, lvlRef * FoodsPerLevel, pos, FALSE),
        snake, pu, mesh)

\* The refs a spawn writes.
StoreSpawn(sp) ==
    /\ foodsRef' = sp.foods
    /\ powerUpRef' = sp.powerUp
    /\ powerUpMeshRef' = sp.mesh
    /\ rngPos' = sp.rng
    /\ budgetExhausted' = (budgetExhausted \/ sp.ex)

NoEvent == [op |-> "none", collided |-> FALSE, ate |-> "none", atePU |-> "none",
            selfHit |-> FALSE, dir |-> Pos(0, 0)]

---------------------------------------------------------------------------
(* The leaderboard: JSON values, JSON.stringify and JSON.parse.  A text is  *)
(* a sequence of characters.  The values and texts are the ones the        *)
(* leaderboard meets: null, non-negative integers, strings, arrays and     *)
(* objects, written without white space; strings may hold quotes and       *)
(* backslashes.                                                             *)

JNull == [t |-> "null"]
JNum(n) == [t |-> "num", n |-> n]
JStr(s) == [t |-> "str", s |-> s]
JArr(a) == [t |-> "arr", a |-> a]
\* An object: its members in insertion order.
JObj(m) == [t |-> "obj", m |-> m]
Member(k, v) == [k |-> k, v |-> v]
\* What reading a missing property gives.
JUndefined == [t |-> "undefined"]

NameKey == << "n", "a", "m", "e" >>
ScoreKey == << "s", "c", "o", "r", "e" >>

\* The object literal { name, score } of saveScore.
HighScore(name, points) ==
    JObj(<< Member(NameKey, JStr(name)), Member(ScoreKey, JNum(points)) >>)

\* v.key: the property read of the sort comparator and of the render.
Get(v, key) ==
    IF v.t = "obj" /\ \E i \in 1..Len(v.m) : v.m[i].k = key
    THEN v.m[CHOOSE i \in 1..Len(v.m) :
                /\ v.m[i].k = key
                /\ \A j \in (i + 1)..Len(v.m) : v.m[j].k # key].v
    ELSE JUndefined

DigitChars == << "0", "1", "2", "3", "4", "5", "6", "7", "8", "9" >>
IsDigit(c) == \E d \in 1..Len(DigitChars) : DigitChars[d] = c
DigitValue(c) == (CHOOSE d \in 1..Len(DigitChars) : DigitChars[d] = c) - 1

\* The decimal text of a non-negative integer.
RECURSIVE NumberText(_)
NumberText(n) ==
    IF n < Len(DigitChars) THEN << DigitChars[n + 1] >>
    ELSE NumberText(n \div Len(DigitChars)) \o << DigitChars[(n % Len(DigitChars)) + 1] >>

\* The characters of a string as JSON.stringify writes them: a quote and a
\* backslash get a backslash in front.
RECURSIVE EscapedString(_, _)
EscapedString(s, i) ==
    IF i > Len(s) THEN << >>
    ELSE (IF s[i] \in {"\"", "\\"} THEN << "\\", s[i] >> ELSE << s[i] >>)
             \o EscapedString(s, i + 1)

Quoted(s) == << "\"" >> \o EscapedString(s, 1) \o << "\"" >>

RECURSIVE JSONstringify(_)
RECURSIVE stringifyItems(_, _)
RECURSIVE stringifyMembers(_, _)
JSONstringify(v) ==
    IF v.t = "num" THEN NumberText(v.n)
    ELSE IF v.t = "str" THEN Quoted(v.s)
    ELSE IF v.t = "arr" THEN << "[" >> \o stringifyItems(v.a, 1) \o << "]" >>
    ELSE IF v.t = "obj" THEN << "{" >> \o stringifyMembers(v.m, 1) \o << "}" >>
    ELSE << "n", "u", "l", "l" >>

stringifyItems(a, i) ==
    IF i > Len(a) THEN << >>
    ELSE (IF i > 1 THEN << "," >> ELSE << >>) \o JSONstringify(a[i])
             \o stringifyItems(a, i + 1)

stringifyMembers(m, i) ==
    IF i > Len(m) THEN << >>
    ELSE (IF i > 1 THEN << "," >> ELSE << >>) \o Quoted(m[i].k) \o << ":" >>
             \o JSONstringify(m[i].v) \o stringifyMembers(m, i + 1)

\* The character at i, "" past the end of the text.
At(text, i) == IF i >= 1 /\ i <= Len(text) THEN text[i] ELSE ""

\* What a parse step gives: a value and the place after it, or a SyntaxError.
Parsed(v, i) == [ok |-> TRUE, v |-> v, i |-> i]
SyntaxError == [ok |-> FALSE, v |-> JNull, i |-> 0]

RECURSIVE parseValue(_, _)
RECURSIVE parseChars(_, _, _)
RECURSIVE parseDigits(_, _, _)
RECURSIVE parseItems(_, _, _)
RECURSIVE parseItemsAfter(_, _, _)
RECURSIVE parseMembers(_, _, _)
RECURSIVE parseMemberKey(_, _, _)
RECURSIVE parseMemberValue(_, _, _, _)

\* The characters of a string, from i (after the opening quote) to the
\* closing quote.
parseChars(text, i, acc) ==
    IF At(text, i) = "" THEN SyntaxError
    ELSE IF At(text, i) = "\"" THEN Parsed(JStr(acc), i + 1)
    ELSE IF At(text, i) = "\\"
    THEN IF At(text, i + 1) \in {"\"", "\\", "/"}
         THEN parseChars(text, i + 2, Append(acc, At(text, i + 1)))
         ELSE SyntaxError
    ELSE parseChars(text, i + 1, Append(acc, At(text, i)))

parseDigits(text, i, acc) ==
    IF IsDigit(At(text, i))
    THEN parseDigits(text, i + 1, acc * Len(DigitChars) + DigitValue(At(text, i)))
    ELSE Parsed(JNum(acc), i)

parseValue(text, i) ==
    IF At(text, i) = "n"
    THEN IF SubSeq(text, i, i + 3) = << "n", "u", "l", "l" >>
         THEN Parsed(JNull, i + 4) ELSE SyntaxError
    ELSE IF At(text, i) = "\"" THEN parseChars(text, i + 1, << >>)
    ELSE IF At(text, i) = "["
    THEN IF At(text, i + 1) = "]" THEN Parsed(JArr(<< >>), i + 2)
         ELSE parseItems(text, i + 1, << >>)
    ELSE IF At(text, i) = "{"
    THEN IF At(text, i + 1) = "}" THEN Parsed(JObj(<< >>), i + 2)
         ELSE parseMembers(text, i + 1, << >>)
    ELSE IF At(text, i) = "0" THEN Parsed(JNum(0), i + 1)
    ELSE IF IsDigit(At(text, i)) THEN parseDigits(text, i, 0)
    ELSE SyntaxError

parseItems(text, i, acc) == parseItemsAfter(text, acc, parseValue(text, i))

parseItemsAfter(text, acc, r) ==
    IF ~r.ok THEN SyntaxError
    ELSE IF At(text, r.i) = "," THEN parseItems(text, r.i + 1, Append(acc, r.v))
    ELSE IF At(text, r.i) = "]" THEN Parsed(JArr(Append(acc, r.v)), r.i + 1)
    ELSE SyntaxError

parseMembers(text, i, acc) ==
    IF At(text, i) = "\"" THEN parseMemberKey(text, acc, parseChars(text, i + 1, << >>))
    ELSE SyntaxError

parseMemberKey(text, acc, key) ==
    IF key.ok /\ At(text, key.i) = ":"
    THEN parseMemberValue(text, acc, key.v.s, parseValue(text, key.i + 1))
    ELSE SyntaxError

parseMemberValue(text, acc, key, r) ==
    IF ~r.ok THEN SyntaxError
    ELSE IF At(text, r.i) = ","
    THEN parseMembers(text, r.i + 1, Append(acc, Member(key, r.v)))
    ELSE IF At(text, r.i) = "}"
    THEN Parsed(JObj(Append(acc, Member(key, r.v))), r.i + 1)
    ELSE SyntaxError

\* The whole text must be one value.
parseWhole(text, r) == IF r.ok /\ r.i = Len(text) + 1 THEN r ELSE SyntaxError

JSONparse(text) == parseWhole(text, parseValue(text, 1))

\* localStorage.getItem: null when the key is absent, else the text.
NoItem == [present |-> FALSE, text |-> << >>]
Item(text) == [present |-> TRUE, text |-> text]

\* An entry whose score the comparator (a, b) => b.score - a.score can
\* subtract: a number.
HasScore(e) == Get(e, ScoreKey).t = "num"
ScoreOf(e) == Get(e, ScoreKey).n

\* Where sort((a, b) => b.score - a.score) puts e among the entries sorted
\* before it: after every entry whose score is not smaller (the sort is
\* stable).
insertByScore(sorted, e) ==
    (SelectSeq(sorted, LAMBDA a : ScoreOf(a) >= ScoreOf(e)) \o << e >>)
        \o SelectSeq(sorted, LAMBDA a : ScoreOf(a) < ScoreOf(e))

RECURSIVE sortByScore(_, _, _)
sortByScore(list, i, sorted) ==
    IF i > Len(list) THEN sorted
    ELSE sortByScore(list, i + 1, insertByScore(sorted, list[i]))

\* The orders sort may leave a list in whose comparator gives NaN for some
\* pair: any order.
anyOrder(list) ==
    { [i \in 1..Len(list) |-> list[p[i]]] :
          p \in { q \in [1..Len(list) -> 1..Len(list)] :
                      \A i, j \in 1..Len(list) : q[i] = q[j] => i = j } }

\* [...].sort((a, b) => b.score - a.score)
sortedByScore(list) ==
    IF \A i \in 1..Len(list) : HasScore(list[i])
    THEN { sortByScore(list, 1, << >>) }
    ELSE anyOrder(list)

\* .slice(0, 5)
slice(list) == SubSeq(list, 1, IF Len(list) < 5 THEN Len(list) ELSE 5)

\* The render of the START screen throws: it reads highScores.length and the
\* name of the entries it shows (src/index.tsx the first three, through
\* slice(0, 3).map, which a string lacks; part_000 the first).
renderThrows(v) ==
    \/ v.t = "null"
    \/ v.t = "str" /\ v.s # << >> /\ variant = "index"
    \/ /\ v.t = "arr"
       /\ \E i \in 1..Len(v.a) :
             /\ v.a[i].t = "null"
             /\ i <= (IF variant = "index" THEN 3 ELSE 1)

\* The state of a component whose leaderboard is empty and stored nowhere,
\* and of a placement never called alone.
NoPlacement == [pos |-> Pos(0, 0), rng |-> 0, ex |-> FALSE, tries |-> 0]
BoardIdle ==
    /\ highScores = JArr(<< >>)
    /\ storage = NoItem
    /\ playerName = << >>
    /\ startup = "done"
    /\ saves = 0
PlaceIdle == occupiedArg = {} /\ placed = NoPlacement

\* The effect lists of src/index.tsx as the component creates them: empty,
\* and no snake mesh built yet.  Untracked stands for them in the runs that
\* do not follow the effects.
NoEffects ==
    [on |-> TRUE, trail |-> << >>, ghost |-> << >>, crash |-> << >>,
     confetti |-> << >>, fireworks |-> << >>, flyingFoods |-> << >>,
     flyingPowerUps |-> << >>, snakeMeshes |-> FALSE]
Untracked == [NoEffects EXCEPT !.on = FALSE]
EffectsUntracked == fx = Untracked

---------------------------------------------------------------------------
(* Initial state: the refs and state cells as the component creates them *)

InitRun(seeds) ==
    /\ variant \in Variants
    /\ gameState = "START"
    /\ gameStateRef = "START"
    /\ score = 0
    /\ scoreRef = 0
    /\ level = 1
    /\ levelRef = 1
    /\ timeLeftRef = LEVEL_DURATION * 1000
    /\ snakeRef = << Pos(0, 0) >>
    /\ directionRef = Pos(0, -1)
    /\ moveQueueRef = << >>
    /\ foodsRef = << >>
    /\ powerUpRef = NoPowerUp
    /\ powerUpMeshRef = FALSE
    /\ ghostModeEndTimeRef = 0
    /\ speedBoostEndTimeRef = 0
    /\ dogPulseEndTimeRef = 0
    /\ lastMoveTimeRef = 0
    /\ moveIntervalRef = 200
    /\ baseLevelSpeedRef = 200
    /\ levelStartScoreRef = 0
    /\ clock = 0
    /\ timers = {}
    /\ frames = 0
    /\ inputs = 0
    /\ user \in Users
    /\ seed \in seeds
    /\ rngPos = 1
    /\ budgetExhausted = FALSE
    /\ ev = NoEvent

InitSimulation == InitRun(GameSeeds)

\* A first visit: nothing is stored and the initialization effect has run.
Init == InitSimulation /\ BoardIdle /\ PlaceIdle /\ EffectsUntracked

---------------------------------------------------------------------------
(* The effects of src/index.tsx: particle lists and flying meshes.  The    *)
(* particles pushed by one call share their life from then on and are kept *)
(* as one batch [life, n]; lives are in thousandths, progress of a flying  *)
(* mesh in hundredths.  No function of the simulation reads these lists,   *)
(* so the runs that do not follow them carry Untracked unchanged.          *)

Batch(n) == [life |-> ParticleLife, n |-> n]

\* p.life -= decay for every particle; those with life <= 0 are spliced out.
Decayed(list, decay) ==
    SelectSeq([i \in 1..Len(list) |-> [list[i] EXCEPT !.life = @ - decay]],
              LAMBDA p : p.life > 0)

\* item.progress += step for every flying mesh; those with progress >= 1 are
\* removed.
Flown(list, step) ==
    SelectSeq([i \in 1..Len(list) |-> [list[i] EXCEPT !.progress = @ + step]],
              LAMBDA item : item.progress < FlightEnd)

spawnTrailParticle(f) == [f EXCEPT !.trail = Append(@, Batch(3))]
spawnGhostParticles(f) == [f EXCEPT !.ghost = Append(@, Batch(1))]
spawnConfetti(f, count) == [f EXCEPT !.confetti = Append(@, Batch(count))]
spawnFirework(f) == [f EXCEPT !.fireworks = Append(@, Batch(30))]
\* triggerCrash: 20 crash particles.
triggerCrash(f) ==
    [f EXCEPT !.crash = Append(@, [life |-> ParticleLife, n |-> 20, age |-> 0])]
triggerFloatingFood(f, type) ==
    IF type = "FOOD"
    THEN [f EXCEPT !.flyingFoods = Append(@, [progress |-> 0, n |-> 1])]
    ELSE [f EXCEPT !.flyingPowerUps = Append(@, [progress |-> 0, n |-> 1])]

updateTrailParticles(f) == [f EXCEPT !.trail = Decayed(@, 20)]
updateConfettiParticles(f) == [f EXCEPT !.confetti = Decayed(@, 20)]
updateFireworks(f) == [f EXCEPT !.fireworks = Decayed(@, 15)]

\* updateCrashParticles: a particle is also removed once it is below
\* y = -5; fell tells that the particles old enough for that are.
updateCrashParticles(f, fell) ==
    [f EXCEPT !.crash =
        SelectSeq([i \in 1..Len(f.crash) |->
                      [f.crash[i] EXCEPT !.life = @ - 20, !.age = @ + 1]],
                  LAMBDA p : p.life > 0 /\ ~(fell /\ p.age > FallFrames))]

\* updateFlyingFoods / updateFlyingPowerUps return at once while there is
\* no snake mesh.
updateFlyingFoods(f) ==
    IF f.snakeMeshes THEN [f EXCEPT !.flyingFoods = Flown(@, 10)] ELSE f
updateFlyingPowerUps(f) ==
    IF f.snakeMeshes THEN [f EXCEPT !.flyingPowerUps = Flown(@, 5)] ELSE f

\* The ghost particles of updateDogVisuals: one more while invulnerable and
\* a snake mesh exists, then every one of them decays.
updateDogVisuals(f, isGhost) ==
    [(IF isGhost /\ f.snakeMeshes THEN spawnGhostParticles(f) ELSE f)
        EXCEPT !.ghost = Decayed(@, 20)]

\* What updateGameLogic of src/index.tsx does to the effects on the tick
\* that e describes: the crash burst of a collision, or else the flying
\* food and confetti of a food eaten (the trail of the tail if none), the
\* flying mesh and confetti of a power-up consumed, and the snake meshes
\* rebuilt by updateThreeObjects.
foodEffects(f, e) ==
    IF e.ate # "none"
    THEN spawnConfetti(triggerFloatingFood(f, "FOOD"), 8)
    ELSE spawnTrailParticle(f)

powerUpEffects(f, e) ==
    IF e.atePU # "none"
    THEN spawnConfetti(triggerFloatingFood(f, "POWERUP"), 20)
    ELSE f

tickEffects(f, e) ==
    IF e.collided THEN triggerCrash(f)
    ELSE [powerUpEffects(foodEffects(f, e), e) EXCEPT !.snakeMeshes = TRUE]

\* The effect calls of one frame of animate, by the branch the mode ref
\* selects; f holds what the tick of this frame, if any, has pushed.
frameEffects(f, mode, isGhost, fell) ==
    IF mode = "PLAYING"
    THEN updateDogVisuals(
             updateConfettiParticles(
                 updateCrashParticles(
                     updateTrailParticles(
                         updateFlyingPowerUps(updateFlyingFoods(f))),
                     fell)),
             isGhost)
    ELSE IF mode = "LEVEL_TRANSITION"
    THEN updateFlyingPowerUps(
             updateConfettiParticles(
                 updateCrashParticles(updateTrailParticles(updateFireworks(f)),
                                      fell)))
    ELSE IF mode = "GAME_OVER" \/ mode = "START"
    THEN updateCrashParticles(f, fell)
    ELSE f

\* Whether some crash particle may be below y = -5 at the next update.
MayFall(f) ==
    IF \E i \in 1..Len(f.crash) : f.crash[i].age >= FallFrames
    THEN BOOLEAN ELSE {FALSE}

\* resetGame empties snakeMeshesRef; the particle lists stay.
resetEffects(f) == IF f.on THEN [f EXCEPT !.snakeMeshes = FALSE] ELSE f

\* The timeouts nextLevel sets for its fireworks: 15 bursts, 300 ms apart.
fireworkTimers(tnow) ==
    IF fx.on
    THEN { [kind |-> "firework", due |-> tnow + i * 300] : i \in 0..14 }
    ELSE {}

---------------------------------------------------------------------------
(* src/index.tsx *)

Event(op, collided, ate, atePU, selfHit, dir) ==
    [op |-> op, collided |-> collided, ate |-> ate, atePU |-> atePU,
     selfHit |-> selfHit, dir |-> dir]

\* hitWall of updateGameLogic (src/index.tsx).
hitWallIndex(nextHead) ==
    \/ nextHead.x > GRID_SIZE \div 2
    \/ nextHead.x < -(GRID_SIZE \div 2)
    \/ nextHead.z > GRID_SIZE \div 2
    \/ nextHead.z < -(GRID_SIZE \div 2)

\* hitSelf of updateGameLogic (src/index.tsx): any segment but the head.
hitSelfIndex(snake, nextHead) ==
    \E i \in 1..Len(snake) : i # 1 /\ SamePos(snake[i], nextHead)

\* The test that ends the run in updateGameLogic (src/index.tsx).
collisionIndex(snake, nextHead, now, ghostEnd) ==
    hitWallIndex(nextHead) \/ (hitSelfIndex(snake, nextHead) /\ now > ghostEnd)

\* A nextLevel whose timeout is due after 400 ms.
nextLevelTimersShort(tnow) == timers \cup {[kind |-> "level", due |-> tnow + 400]}

\* nextLevel: the mode changes at once, the level advance is a timeout.
nextLevelTimers(tnow) ==
    (timers \cup fireworkTimers(tnow)) \cup {[kind |-> "level", due |-> tnow + 4000]}

\* A newSnake that never drops the last segment.
newSnakeKeepsTail(snake, nextHead, grown) == << nextHead >> \o snake

\* newSnake of updateGameLogic, both variants: the new head in front, and
\* the last segment dropped unless a food was eaten.
newSnake(snake, nextHead, grown) ==
    IF grown THEN << nextHead >> \o snake
    ELSE SubSeq(<< nextHead >> \o snake, 1, Len(snake))

\* Points that take no notice of the type of the food.
pointsFlat(eatenFood) == 100

\* points of updateGameLogic (src/index.tsx): 150 for FRIES, else 100.
pointsIndex(eatenFood) == IF eatenFood.type = "FRIES" THEN 150 ELSE 100

\* What a tick without food leaves of the spawn state: nothing changes.
NoSpawn == Spawned(foodsRef, powerUpRef, powerUpMeshRef, rngPos, FALSE)

\* The part of updateGameLogic (src/index.tsx) after the collision test:
\* the move to nextHead, with sp what spawnFood left if a food was eaten.
moveIndex(now, tnow, dir, nextHead, foodIndex, hitSelf, sp) ==
    LET points == IF foodIndex = 0 THEN 0 ELSE pointsIndex(foodsRef[foodIndex])
        interval == IF foodIndex # 0 THEN Max(50, moveIntervalRef - 2)
                    ELSE moveIntervalRef
        eatsPU == sp.powerUp # NoPowerUp /\ SamePos(nextHead, sp.powerUp)
        puType == IF eatsPU THEN sp.powerUp.type ELSE "none"
        timeLeft == timeLeftRef - interval
    IN
    /\ snakeRef' = newSnake(snakeRef, nextHead, foodIndex # 0)
    /\ foodsRef' = sp.foods
    /\ rngPos' = sp.rng
    /\ budgetExhausted' = (budgetExhausted \/ sp.ex)
    /\ moveIntervalRef' = interval
    /\ score' = score + points + (IF eatsPU THEN 500 ELSE 0)
    /\ powerUpRef' = IF eatsPU THEN NoPowerUp ELSE sp.powerUp
    /\ powerUpMeshRef' = IF eatsPU THEN FALSE ELSE sp.mesh
    /\ ghostModeEndTimeRef' =
          IF puType = "GHOST" THEN now + 10000 ELSE ghostModeEndTimeRef
    /\ speedBoostEndTimeRef' =
          IF puType = "BURGER" THEN now + 8000 ELSE speedBoostEndTimeRef
    /\ dogPulseEndTimeRef' =
          IF puType = "BURGER" THEN now + 1000 ELSE dogPulseEndTimeRef
    /\ timeLeftRef' = timeLeft
    /\ IF timeLeft <= 0
       THEN gameState' = "LEVEL_TRANSITION" /\ timers' = nextLevelTimers(tnow)
       ELSE UNCHANGED << gameState, timers >>
    /\ ev' = Event("tick", FALSE,
                   IF foodIndex # 0 THEN foodsRef[foodIndex].type ELSE "none",
                   puType, hitSelf, dir)

\* updateGameLogic of src/index.tsx, called at wall-clock time now on the
\* frame with timestamp tnow.
updateGameLogicIndex(now, tnow) ==
    LET dir == IF Len(moveQueueRef) > 0 THEN Head(moveQueueRef) ELSE directionRef
        queue == IF Len(moveQueueRef) > 0 THEN Tail(moveQueueRef) ELSE moveQueueRef
        currentHead == snakeRef[1]
        nextHead == Pos(currentHead.x + dir.x, currentHead.z + dir.z)
        hitSelf == hitSelfIndex(snakeRef, nextHead)
        foodIndex == FindFoodIndex(foodsRef, nextHead)
    IN
    /\ directionRef' = dir
    /\ moveQueueRef' = queue
    /\ UNCHANGED << level, levelRef, scoreRef, gameStateRef, baseLevelSpeedRef,
                    levelStartScoreRef >>
    /\ IF collisionIndex(snakeRef, nextHead, now, ghostModeEndTimeRef)
       THEN /\ gameState' = "GAME_OVER"
            /\ playerName' = << >>
            /\ ev' = Event("tick", TRUE, "none", "none", hitSelf, dir)
            /\ UNCHANGED << score, timeLeftRef, snakeRef, foodsRef, powerUpRef,
                            powerUpMeshRef, ghostModeEndTimeRef, speedBoostEndTimeRef,
                            dogPulseEndTimeRef, moveIntervalRef, timers, rngPos,
                            budgetExhausted >>
       ELSE IF foodIndex # 0
       THEN /\ UNCHANGED playerName
            /\ moveIndex(now, tnow, dir, nextHead, foodIndex, hitSelf,
                         spawnFoodIndex(RemoveAt(foodsRef, foodIndex), snakeRef,
                                        powerUpRef, powerUpMeshRef, levelRef, rngPos))
       ELSE /\ UNCHANGED playerName
            /\ moveIndex(now, tnow, dir, nextHead, foodIndex, hitSelf, NoSpawn)

---------------------------------------------------------------------------
(* src/unnamed/part_000 *)

\* spawnFood(count) of src/unnamed/part_000: count foods, one per round.
RECURSIVE spawnFoodPart(_, _, _, _, _, _)
RECURSIVE spawnFoodPartRound(_, _, _, _, _, _)
spawnFoodPartRound(foods, snake, pu, count, ex, r) ==
    spawnFoodPart(Append(foods, FoodAt(r)), snake, pu, count - 1,
                  Advance(r.rng), ex \/ r.ex)

spawnFoodPart(foods, snake, pu, count, pos, ex) ==
    IF count <= 0
    THEN [foods |-> foods, rng |-> pos, ex |-> ex]
    ELSE spawnFoodPartRound(foods, snake, pu, count, ex,
                            getRandomPosition(SeqCells(snake) \cup SeqCells(foods)
                                                  \cup PowerUpCells(pu), pos))

\* The type spawnPowerUp of part_000 draws: types[Math.floor(random * 3)].
powerUpTypePart(rand) ==
    << "MUSTARD", "GHOST", "BURGER" >>[((rand * 3) \div 100) + 1]

\* spawnPowerUp of part_000 once its cell r is found.
placePowerUpPart(foods, ex, r) ==
    Spawned(foods,
            [x |-> r.pos.x, z |-> r.pos.z, type |-> powerUpTypePart(Random(r.rng))],
            TRUE, Advance(r.rng), ex \/ r.ex)

\* spawnPowerUp of src/unnamed/part_000, called after spawnFood left f: with
\* a 30% chance a new power-up is placed, whatever powerUpRef held before.
spawnPowerUpPart(f, snake, pu, mesh) ==
    IF Random(f.rng) > 30
    THEN Spawned(f.foods, pu, mesh, Advance(f.rng), f.ex)
    ELSE placePowerUpPart(f.foods, f.ex,
                          getRandomPosition(SeqCells(snake) \cup SeqCells(f.foods),
                                            Advance(f.rng)))

\* spawnFood(n) alone, as resetGame and retryLevel of part_000 call it: the
\* power-up ref is left as it is and the mesh is whatever the caller made it.
spawnFoodOnly(f, pu, mesh) == Spawned(f.foods, pu, mesh, f.rng, f.ex)

\* The wall test of updateGameLogic (src/unnamed/part_000).
hitWallPart(newHead) ==
    \/ newHead.x < -(GRID_SIZE \div 2)
    \/ newHead.x >= GRID_SIZE \div 2
    \/ newHead.z < -(GRID_SIZE \div 2)
    \/ newHead.z >= GRID_SIZE \div 2

\* The self test of updateGameLogic (src/unnamed/part_000): any segment but
\* the last one.
hitSelfPart(snake, newHead) ==
    \E i \in 1..Len(snake) : i # Len(snake) /\ SamePos(snake[i], newHead)

\* handlePowerUp of src/unnamed/part_000: the score each type adds.
handlePowerUpScore(type) ==
    IF type = "MUSTARD" THEN 500
    ELSE IF type = "GHOST" THEN 200
    ELSE IF type = "BURGER" THEN 300
    ELSE 0

\* finishLevel: the mode changes at once, startLevel is a timeout.
finishLevelTimers(tnow) == timers \cup {[kind |-> "level", due |-> tnow + 3000]}

\* The part of updateGameLogic (src/unnamed/part_000) after the collision
\* tests: the move to newHead, with sp what spawnFood(1) and spawnPowerUp()
\* left if a food was eaten.
movePart(now, dir, newHead, foodIndex, hitSelf, sp) ==
    LET grown == foodIndex # 0
        points == IF foodIndex = 0 THEN 0
                  ELSE IF foodsRef[foodIndex].type = "FRIES" THEN 150 ELSE 100
        eatsPU == sp.powerUp # NoPowerUp /\ SamePos(newHead, sp.powerUp)
        puType == IF eatsPU THEN sp.powerUp.type ELSE "none"
    IN
    /\ gameState' = gameState
    /\ snakeRef' = newSnake(snakeRef, newHead, grown)
    /\ foodsRef' = sp.foods
    /\ rngPos' = sp.rng
    /\ budgetExhausted' = (budgetExhausted \/ sp.ex)
    /\ moveIntervalRef' = IF grown THEN Max(50, moveIntervalRef - 2)
                          ELSE moveIntervalRef
    /\ score' = score + points + handlePowerUpScore(puType)
    /\ powerUpRef' = IF eatsPU THEN NoPowerUp ELSE sp.powerUp
    /\ powerUpMeshRef' = IF eatsPU THEN FALSE ELSE sp.mesh
    /\ ghostModeEndTimeRef' =
          IF puType = "GHOST" THEN now + 10000 ELSE ghostModeEndTimeRef
    /\ speedBoostEndTimeRef' =
          IF puType = "BURGER" THEN now + 8000 ELSE speedBoostEndTimeRef
    /\ dogPulseEndTimeRef' =
          IF puType = "BURGER" THEN now + 2000 ELSE dogPulseEndTimeRef
    /\ ev' = Event("tick", FALSE,
                   IF grown THEN foodsRef[foodIndex].type ELSE "none",
                   puType, hitSelf, dir)

\* updateGameLogic of src/unnamed/part_000.
updateGameLogicPart(now, tnow) ==
    LET timeLeft == timeLeftRef - 100
        dir == IF Len(moveQueueRef) > 0 THEN Head(moveQueueRef) ELSE directionRef
        queue == IF Len(moveQueueRef) > 0 THEN Tail(moveQueueRef) ELSE moveQueueRef
        head == snakeRef[1]
        newHead == Pos(head.x + dir.x, head.z + dir.z)
        isGhost == now < ghostModeEndTimeRef
        hitSelf == hitSelfPart(snakeRef, newHead)
        foodIndex == FindFoodIndex(foodsRef, newHead)
    IN
    /\ timeLeftRef' = timeLeft
    /\ UNCHANGED << level, levelRef, scoreRef, gameStateRef, baseLevelSpeedRef,
                    levelStartScoreRef, playerName >>
    /\ IF timeLeft <= 0
       THEN /\ gameState' = "LEVEL_TRANSITION"
            /\ timers' = finishLevelTimers(tnow)
            /\ ev' = Event("tick", FALSE, "none", "none", FALSE, Pos(0, 0))
            /\ UNCHANGED << score, snakeRef, directionRef, moveQueueRef, foodsRef,
                            powerUpRef, powerUpMeshRef, ghostModeEndTimeRef,
                            speedBoostEndTimeRef, dogPulseEndTimeRef, moveIntervalRef,
                            rngPos, budgetExhausted >>
       ELSE
       /\ directionRef' = dir
       /\ moveQueueRef' = queue
       /\ UNCHANGED timers
       /\ IF hitWallPart(newHead) \/ (~isGhost /\ hitSelf)
          THEN /\ gameState' = "GAME_OVER"
               /\ ev' = Event("tick", TRUE, "none", "none", hitSelf, dir)
               /\ UNCHANGED << score, snakeRef, foodsRef, powerUpRef, powerUpMeshRef,
                               ghostModeEndTimeRef, speedBoostEndTimeRef,
                               dogPulseEndTimeRef, moveIntervalRef, rngPos,
                               budgetExhausted >>
          ELSE IF foodIndex # 0
          THEN movePart(now, dir, newHead, foodIndex, hitSelf,
                        spawnPowerUpPart(
                            spawnFoodPart(RemoveAt(foodsRef, foodIndex), snakeRef,
                                          powerUpRef, 1, rngPos, FALSE),
                            snakeRef, powerUpRef, powerUpMeshRef))
          ELSE movePart(now, dir, newHead, foodIndex, hitSelf, NoSpawn)

---------------------------------------------------------------------------
(* Operations *)

\* What the last committed render showed: the closures of part_000 read
\* gameState as of that render, which is the value the effect copied into
\* gameStateRef.
renderedGameState == gameStateRef

\* The frame callback animate(time), both variants: a tick runs when the
\* mode ref is PLAYING and more than the effective interval has elapsed.
animateAfter(d) ==
    LET tnow == clock + d
        now == tnow + EpochOffset
        isSpeedBoostActive == now < speedBoostEndTimeRef
        currentInterval == IF isSpeedBoostActive THEN 60 ELSE moveIntervalRef
    IN
    /\ frames < MaxFrames
    /\ clock' = tnow
    /\ frames' = frames + 1
    /\ UNCHANGED << variant, seed, inputs, user, boardVars, placeVars >>
    /\ IF gameStateRef = "PLAYING" /\ tnow - lastMoveTimeRef > currentInterval
       THEN /\ lastMoveTimeRef' = tnow
            /\ IF variant = "index"
               THEN updateGameLogicIndex(now, tnow)
               ELSE updateGameLogicPart(now, tnow)
       ELSE /\ ev' = Event("frame", FALSE, "none", "none", FALSE, Pos(0, 0))
            /\ UNCHANGED << gameState, gameStateRef, score, scoreRef, level, levelRef,
                            timeLeftRef, snakeRef, directionRef, moveQueueRef, foodsRef,
                            powerUpRef, powerUpMeshRef, ghostModeEndTimeRef,
                            speedBoostEndTimeRef, dogPulseEndTimeRef, lastMoveTimeRef,
                            moveIntervalRef, baseLevelSpeedRef, levelStartScoreRef,
                            timers, rngPos, budgetExhausted, playerName >>
    /\ IF fx.on /\ variant = "index"
       THEN \E fell \in MayFall(fx) :
                fx' = frameEffects(IF ev'.op = "tick" THEN tickEffects(fx, ev') ELSE fx,
                                   gameStateRef, now < ghostModeEndTimeRef', fell)
       ELSE UNCHANGED fx

animate == \E d \in Deltas : animateAfter(d)

\* The frame callback on a page whose frames may also come 100 ms apart:
\* such a frame is due for a tick under the speed boost only.
animateFine == \E d \in FineDeltas : animateAfter(d)

\* The effects "Sync State to Refs", run after the render that follows a
\* state update made in a frame or timeout callback.
SyncRefs ==
    /\ gameStateRef # gameState \/ scoreRef # score \/ levelRef # level
    /\ gameStateRef' = gameState
    /\ scoreRef' = score
    /\ levelRef' = level
    /\ ev' = Event("sync", FALSE, "none", "none", FALSE, Pos(0, 0))
    /\ UNCHANGED << variant, gameState, score, level, timeLeftRef, snakeRef, directionRef,
                    moveQueueRef, foodsRef, powerUpRef, powerUpMeshRef,
                    ghostModeEndTimeRef, speedBoostEndTimeRef, dogPulseEndTimeRef,
                    lastMoveTimeRef, moveIntervalRef, baseLevelSpeedRef,
                    levelStartScoreRef, clock, timers, frames, inputs, user, seed,
                    rngPos, budgetExhausted, boardVars, placeVars, playerName, fx >>

\* startGame: resetGame(true) in src/index.tsx, resetGame(1) in part_000.
\* It runs in a key or click handler, so its state updates are rendered and
\* copied to the refs before any other callback runs.
startGameBody(op) ==
    /\ gameState' = "PLAYING"
    /\ gameStateRef' = "PLAYING"
    /\ score' = 0
    /\ scoreRef' = 0
    /\ level' = 1
    /\ levelRef' = 1
    /\ timeLeftRef' = LEVEL_DURATION * 1000
    /\ levelStartScoreRef' = 0
    /\ directionRef' = Pos(0, -1)
    /\ moveQueueRef' = << >>
    /\ snakeRef' = InitialSnake(variant)
    /\ ghostModeEndTimeRef' = 0
    /\ speedBoostEndTimeRef' = 0
    /\ ev' = Event(op, FALSE, "none", "none", FALSE, Pos(0, 0))
    /\ UNCHANGED << variant, seed, lastMoveTimeRef, clock, timers, frames >>
    /\ fx' = resetEffects(fx)
    /\ IF variant = "index"
       THEN /\ moveIntervalRef' = 200
            /\ baseLevelSpeedRef' = 200
            /\ UNCHANGED dogPulseEndTimeRef
            /\ StoreSpawn(spawnFoodIndex(<< >>, InitialSnake(variant), NoPowerUp, FALSE,
                                          1, rngPos))
       ELSE /\ baseLevelSpeedRef' = Max(80, 200 - (1 - 1) * 20)
            /\ moveIntervalRef' = Max(80, 200 - (1 - 1) * 20)
            /\ dogPulseEndTimeRef' = 0
            /\ StoreSpawn(spawnFoodOnly(
                   spawnFoodPart(<< >>, InitialSnake(variant), powerUpRef,
                                 1 * FoodsPerLevel, rngPos, FALSE),
                   powerUpRef, FALSE))

\* togglePause: src/index.tsx reads gameStateRef, part_000 the rendered
\* gameState and restarts the tick clock on resume.
togglePauseBody(op) ==
    LET mode == IF variant = "index" THEN gameStateRef ELSE renderedGameState IN
    /\ ev' = Event(op, FALSE, "none", "none", FALSE, Pos(0, 0))
    /\ UNCHANGED << variant, score, scoreRef, level, levelRef, timeLeftRef, snakeRef,
                    directionRef, moveQueueRef, foodsRef, powerUpRef, powerUpMeshRef,
                    ghostModeEndTimeRef, speedBoostEndTimeRef, dogPulseEndTimeRef,
                    moveIntervalRef, baseLevelSpeedRef, levelStartScoreRef, clock,
                    timers, frames, seed, rngPos, budgetExhausted, fx >>
    /\ IF mode = "PLAYING"
       THEN gameState' = "PAUSED" /\ gameStateRef' = "PAUSED" /\ UNCHANGED lastMoveTimeRef
       ELSE IF mode = "PAUSED"
       THEN /\ gameState' = "PLAYING"
            /\ gameStateRef' = "PLAYING"
            /\ lastMoveTimeRef' = IF variant = "index" THEN lastMoveTimeRef ELSE clock
       ELSE UNCHANGED << gameState, gameStateRef, lastMoveTimeRef >>

\* One more user event within the bound.
UserEvent == inputs < MaxInputs /\ inputs' = inputs + 1 /\ UNCHANGED user

\* A user event whose handler leaves the leaderboard and the name alone.
GameEvent == UserEvent /\ UNCHANGED << boardVars, placeVars, playerName >>

\* A handler that changes nothing.
Ignored(op, dir) ==
    /\ ev' = Event(op, FALSE, "none", "none", FALSE, dir)
    /\ UNCHANGED << variant, gameState, gameStateRef, score, scoreRef, level, levelRef,
                    timeLeftRef, snakeRef, directionRef, moveQueueRef, foodsRef,
                    powerUpRef, powerUpMeshRef, ghostModeEndTimeRef,
                    speedBoostEndTimeRef, dogPulseEndTimeRef, lastMoveTimeRef,
                    moveIntervalRef, baseLevelSpeedRef, levelStartScoreRef, clock,
                    timers, frames, seed, rngPos, budgetExhausted, fx >>

\* moveQueueRef.current.push(dir), nothing else.
Push(op, dir) ==
    /\ moveQueueRef' = Append(moveQueueRef, dir)
    /\ ev' = Event(op, FALSE, "none", "none", FALSE, dir)
    /\ UNCHANGED << variant, gameState, gameStateRef, score, scoreRef, level, levelRef,
                    timeLeftRef, snakeRef, directionRef, foodsRef,
                    powerUpRef, powerUpMeshRef, ghostModeEndTimeRef,
                    speedBoostEndTimeRef, dogPulseEndTimeRef, lastMoveTimeRef,
                    moveIntervalRef, baseLevelSpeedRef, levelStartScoreRef, clock,
                    timers, frames, seed, rngPos, budgetExhausted, fx >>

\* The direction the queue validates a request against.
lastMove == IF Len(moveQueueRef) > 0 THEN moveQueueRef[Len(moveQueueRef)] ELSE directionRef

\* A direction branch that validates against the current direction, not
\* against the last queued one.
acceptsIndexAgainstCurrent(nextDir) ==
    /\ nextDir.x # -directionRef.x \/ nextDir.z # -directionRef.z
    /\ Len(moveQueueRef) < 3

\* The direction branch of handleKeyDown, src/index.tsx: no 180 turn, at
\* most 3 queued.
acceptsIndex(nextDir) ==
    /\ nextDir.x # -lastMove.x \/ nextDir.z # -lastMove.z
    /\ Len(moveQueueRef) < 3

\* The direction branch of handleKeyDown and handleTouch, part_000.
acceptsPart(intent) ==
    /\ ~(lastMove.x # 0 /\ intent.x # 0)
    /\ ~(lastMove.z # 0 /\ intent.z # 0)

Keys == {"F2", "F3", "Space", "ArrowUp", "ArrowDown", "ArrowLeft", "ArrowRight"}
DirKeys == {"ArrowUp", "ArrowDown", "ArrowLeft", "ArrowRight"}
KeyDir(k) ==
    IF k = "ArrowUp" THEN UP
    ELSE IF k = "ArrowDown" THEN DOWN
    ELSE IF k = "ArrowLeft" THEN LEFT
    ELSE IF k = "ArrowRight" THEN RIGHT
    ELSE Pos(0, 0)

\* retryLevel, the RETRY LEVEL button of the game-over screen (in part_000
\* also Space or Enter while the game-over screen is shown).
retryLevelBody(op) ==
    /\ gameState' = "PLAYING"
    /\ gameStateRef' = "PLAYING"
    /\ score' = levelStartScoreRef
    /\ scoreRef' = levelStartScoreRef
    /\ timeLeftRef' = LEVEL_DURATION * 1000
    /\ moveIntervalRef' = baseLevelSpeedRef
    /\ directionRef' = Pos(0, -1)
    /\ moveQueueRef' = << >>
    /\ snakeRef' = InitialSnake(variant)
    /\ ev' = Event(op, FALSE, "none", "none", FALSE, Pos(0, 0))
    /\ UNCHANGED << variant, seed, level, levelRef, ghostModeEndTimeRef,
                    speedBoostEndTimeRef, dogPulseEndTimeRef, lastMoveTimeRef,
                    baseLevelSpeedRef, levelStartScoreRef, clock, timers, frames >>
    /\ fx' = resetEffects(fx)
    /\ IF variant = "index"
       THEN StoreSpawn(spawnFoodIndex(<< >>, InitialSnake(variant), NoPowerUp, FALSE,
                                      levelRef, rngPos))
       ELSE StoreSpawn(spawnFoodOnly(
                spawnFoodPart(<< >>, InitialSnake(variant), powerUpRef,
                              levelRef * FoodsPerLevel, rngPos, FALSE),
                powerUpRef, powerUpMeshRef))

retryLevel ==
    /\ "retryLevel" \in UserClicks[user]
    /\ renderedGameState = "GAME_OVER"
    /\ GameEvent
    /\ retryLevelBody("retryLevel")

\* QUIT TO MENU of the pause screen; MAIN MENU of the game-over screen of
\* src/index.tsx: setGameState('START').
mainMenu ==
    /\ "mainMenu" \in UserClicks[user]
    /\ \/ renderedGameState = "PAUSED"
       \/ variant = "index" /\ renderedGameState = "GAME_OVER"
    /\ GameEvent
    /\ gameState' = "START"
    /\ gameStateRef' = "START"
    /\ ev' = Event("mainMenu", FALSE, "none", "none", FALSE, Pos(0, 0))
    /\ UNCHANGED << variant, score, scoreRef, level, levelRef, timeLeftRef, snakeRef,
                    directionRef, moveQueueRef, foodsRef, powerUpRef, powerUpMeshRef,
                    ghostModeEndTimeRef, speedBoostEndTimeRef, dogPulseEndTimeRef,
                    lastMoveTimeRef, moveIntervalRef, baseLevelSpeedRef,
                    levelStartScoreRef, clock, timers, frames, seed, rngPos,
                    budgetExhausted, fx >>

\* handleKeyDown of src/index.tsx.
handleKeyDownIndex(k) ==
    IF k = "F2" THEN startGameBody("startGame")
    ELSE IF k = "F3" THEN togglePauseBody("togglePause")
    ELSE IF gameStateRef = "START" \/ gameStateRef = "GAME_OVER"
    THEN IF k = "Space" THEN startGameBody("startGame") ELSE Ignored("key", KeyDir(k))
    ELSE IF gameStateRef # "PLAYING" THEN Ignored("key", KeyDir(k))
    ELSE IF k \in DirKeys /\ acceptsIndex(KeyDir(k)) THEN Push("key", KeyDir(k))
    ELSE Ignored("key", KeyDir(k))

\* handleKeyDown of src/unnamed/part_000.
handleKeyDownPart(k) ==
    IF k = "F2" THEN startGameBody("startGame")
    ELSE IF k = "F3" THEN togglePauseBody("togglePause")
    ELSE IF k = "Space"
    THEN IF renderedGameState = "START" THEN startGameBody("startGame")
         ELSE IF renderedGameState = "GAME_OVER" THEN retryLevelBody("retryLevel")
         ELSE Ignored("key", Pos(0, 0))
    ELSE IF renderedGameState # "PLAYING" THEN Ignored("key", KeyDir(k))
    ELSE IF acceptsPart(KeyDir(k))
    THEN Len(moveQueueRef) < MaxQueue /\ Push("key", KeyDir(k))
    ELSE Ignored("key", KeyDir(k))

handleKeyDown ==
    \E k \in Keys \cap UserKeys[user] :
        /\ GameEvent
        /\ (IF variant = "index" THEN handleKeyDownIndex(k) ELSE handleKeyDownPart(k))

\* The touch buttons: onPointerDown pushes in src/index.tsx; handleTouch
\* validates in part_000, where the buttons exist only while PLAYING is shown.
touch ==
    \E dir \in Directions \cap UserTouches[user] :
        /\ GameEvent
        /\ IF variant = "index"
           THEN /\ Len(moveQueueRef) < MaxQueue
                /\ Push("touch", dir)
           ELSE /\ renderedGameState = "PLAYING"
                /\ IF acceptsPart(dir)
                   THEN Len(moveQueueRef) < MaxQueue /\ Push("touch", dir)
                   ELSE Ignored("touch", dir)

\* The timeout set by nextLevel (src/index.tsx) or finishLevel (part_000);
\* timeouts run in the order they are due.
\* In src/index.tsx levelRef is assigned inside the setLevel updater, which
\* React runs either at once (eager) or at the next render.
levelTimeoutBelow(maxLevel) ==
    \E t \in timers :
        /\ t.kind = "level"
        /\ clock >= t.due
        /\ \A u \in timers : u.due >= t.due
        /\ level < maxLevel
        /\ fx' = resetEffects(fx)
        /\ timers' = timers \ {t}
        /\ gameState' = "PLAYING"
        /\ timeLeftRef' = LEVEL_DURATION * 1000
        /\ levelStartScoreRef' = scoreRef
        /\ directionRef' = Pos(0, -1)
        /\ moveQueueRef' = << >>
        /\ snakeRef' = InitialSnake(variant)
        /\ ev' = Event("levelTimeout", FALSE, "none", "none", FALSE, Pos(0, 0))
        /\ UNCHANGED << variant, seed, gameStateRef, score, scoreRef, lastMoveTimeRef,
                        clock, frames, inputs, user, boardVars, placeVars,
                        playerName >>
        /\ IF variant = "index"
           THEN \E eager \in BOOLEAN :
                  LET lvlRef == IF eager THEN level + 1 ELSE levelRef IN
                  /\ level' = level + 1
                  /\ levelRef' = lvlRef
                  /\ baseLevelSpeedRef' = Max(50, baseLevelSpeedRef - 15)
                  /\ moveIntervalRef' = Max(50, baseLevelSpeedRef - 15)
                  /\ UNCHANGED << ghostModeEndTimeRef, speedBoostEndTimeRef,
                                  dogPulseEndTimeRef >>
                  /\ StoreSpawn(spawnFoodIndex(<< >>, InitialSnake(variant), NoPowerUp,
                                                FALSE, lvlRef, rngPos))
           ELSE LET lvl == levelRef + 1 IN
                /\ level' = lvl
                /\ UNCHANGED levelRef
                /\ baseLevelSpeedRef' = Max(80, 200 - (lvl - 1) * 20)
                /\ moveIntervalRef' = Max(80, 200 - (lvl - 1) * 20)
                /\ ghostModeEndTimeRef' = 0
                /\ speedBoostEndTimeRef' = 0
                /\ dogPulseEndTimeRef' = 0
                /\ StoreSpawn(spawnFoodOnly(
                       spawnFoodPart(<< >>, InitialSnake(variant), powerUpRef,
                                     lvl * FoodsPerLevel, rngPos, FALSE),
                       powerUpRef, FALSE))

levelTimeout == levelTimeoutBelow(MaxLevel)

\* The level advance of a late run: one level past LateLevel.
levelTimeoutLate == levelTimeoutBelow(LateLevel + 1)

Next ==
    \/ animate
    \/ SyncRefs
    \/ handleKeyDown
    \/ touch
    \/ retryLevel
    \/ mainMenu
    \/ levelTimeout

Spec == Init /\ [][Next]_vars

\* The run of the user of the transport controls on the stream that places
\* a BURGER in front of the snake, with frames 100 ms or 5000 ms apart.
InitFine == Init /\ user = "modes" /\ seed = 4

NextFine ==
    \/ animateFine
    \/ SyncRefs
    \/ handleKeyDown
    \/ touch
    \/ retryLevel
    \/ mainMenu
    \/ levelTimeout

SpecFine == InitFine /\ [][NextFine]_vars

\* The runs on the streams that draw, for a power-up, the cell the head
\* enters.
InitHead == InitRun(HeadSeeds) /\ BoardIdle /\ PlaceIdle /\ EffectsUntracked

SpecHead == InitHead /\ [][Next]_vars

\* The base interval of level lvl: 200 at level 1, max(50, base - 15) at
\* each level advance.
RECURSIVE LevelBase(_)
LevelBase(lvl) == IF lvl <= 1 THEN 200 ELSE Max(50, LevelBase(lvl - 1) - 15)

\* The foods of level LateLevel, none eaten: HOTDOGs that the placement put,
\* row after row, on the cells at the far edge of the grid.
LateFoods ==
    [i \in 1..(LateLevel * FoodsPerLevel) |->
        [x |-> ((i - 1) % GRID_SIZE) - HalfGrid,
         z |-> ((i - 1) \div GRID_SIZE) - HalfGrid,
         type |-> "HOTDOG"]]

\* A late run: src/index.tsx as the countdown of level LateLevel has just
\* run out on a tick, in a level in which nothing was eaten (the foods are
\* the ones placed at the start of the level, the tick interval is the
\* base interval of the level) and the level advance is pending.
InitLate ==
    /\ variant = "index"
    /\ gameState = "LEVEL_TRANSITION"
    /\ gameStateRef = "LEVEL_TRANSITION"
    /\ score = 0
    /\ scoreRef = 0
    /\ level = LateLevel
    /\ levelRef = LateLevel
    /\ timeLeftRef = 0
    /\ snakeRef = << Pos(0, -1), Pos(0, 0), Pos(0, 1) >>
    /\ directionRef = Pos(0, -1)
    /\ moveQueueRef = << >>
    /\ seed = LateSeed
    /\ foodsRef = LateFoods
    /\ powerUpRef = NoPowerUp
    /\ powerUpMeshRef = FALSE
    /\ ghostModeEndTimeRef = 0
    /\ speedBoostEndTimeRef = 0
    /\ dogPulseEndTimeRef = 0
    /\ lastMoveTimeRef = 0
    /\ moveIntervalRef = LevelBase(LateLevel)
    /\ baseLevelSpeedRef = LevelBase(LateLevel)
    /\ levelStartScoreRef = 0
    /\ clock = 0
    /\ timers = {[kind |-> "level", due |-> 4000]}
    /\ frames = 0
    /\ inputs = 0
    /\ user = "modes"
    /\ rngPos = 1
    /\ budgetExhausted = FALSE
    /\ ev = NoEvent
    /\ BoardIdle
    /\ PlaceIdle
    /\ EffectsUntracked

NextLate ==
    \/ animate
    \/ SyncRefs
    \/ handleKeyDown
    \/ touch
    \/ retryLevel
    \/ mainMenu
    \/ levelTimeoutLate

SpecLate == InitLate /\ [][NextLate]_vars

---------------------------------------------------------------------------
(* The runs of src/index.tsx that follow the effects *)

\* A firework timeout that also refills the countdown.
spawnFireworkRefilling(t) ==
    /\ timers' = timers \ {t}
    /\ fx' = spawnFirework(fx)
    /\ timeLeftRef' = LEVEL_DURATION * 1000
    /\ ev' = Event("spawnFirework", FALSE, "none", "none", FALSE, Pos(0, 0))
    /\ UNCHANGED << variant, gameState, gameStateRef, score, scoreRef, level,
                    levelRef, snakeRef, directionRef, moveQueueRef,
                    foodsRef, powerUpRef, powerUpMeshRef, ghostModeEndTimeRef,
                    speedBoostEndTimeRef, dogPulseEndTimeRef, lastMoveTimeRef,
                    moveIntervalRef, baseLevelSpeedRef, levelStartScoreRef, clock,
                    frames, inputs, user, seed, rngPos, budgetExhausted,
                    boardVars, placeVars, playerName >>

\* The callback () => spawnFirework() of the timeout t: one burst of 30
\* particles, whatever the mode.
spawnFireworkTimeout(t) ==
    /\ timers' = timers \ {t}
    /\ fx' = spawnFirework(fx)
    /\ ev' = Event("spawnFirework", FALSE, "none", "none", FALSE, Pos(0, 0))
    /\ UNCHANGED << variant, gameState, gameStateRef, score, scoreRef, level,
                    levelRef, timeLeftRef, snakeRef, directionRef, moveQueueRef,
                    foodsRef, powerUpRef, powerUpMeshRef, ghostModeEndTimeRef,
                    speedBoostEndTimeRef, dogPulseEndTimeRef, lastMoveTimeRef,
                    moveIntervalRef, baseLevelSpeedRef, levelStartScoreRef, clock,
                    frames, inputs, user, seed, rngPos, budgetExhausted,
                    boardVars, placeVars, playerName >>

\* A firework timeout of nextLevel fires; timeouts run in the order they
\* are due.
fireworkTimeout ==
    \E t \in timers :
        /\ t.kind = "firework"
        /\ clock >= t.due
        /\ \A u \in timers : u.due >= t.due
        /\ spawnFireworkTimeout(t)

InitEffects ==
    /\ InitSimulation
    /\ variant = "index"
    /\ user = "modes"
    /\ BoardIdle
    /\ PlaceIdle
    /\ fx = NoEffects

NextEffects ==
    \/ animate
    \/ SyncRefs
    \/ handleKeyDown
    \/ touch
    \/ retryLevel
    \/ mainMenu
    \/ levelTimeout
    \/ fireworkTimeout

SpecEffects == InitEffects /\ [][NextEffects]_vars

---------------------------------------------------------------------------
(* The leaderboard *)

\* What the simulation holds while the leaderboard is worked on.
simulationVars ==
    << variant, level, levelRef, timeLeftRef, snakeRef, directionRef,
       moveQueueRef, foodsRef, powerUpRef, powerUpMeshRef, ghostModeEndTimeRef,
       speedBoostEndTimeRef, dogPulseEndTimeRef, lastMoveTimeRef,
       moveIntervalRef, baseLevelSpeedRef, levelStartScoreRef, clock, timers,
       frames, seed, rngPos, budgetExhausted, fx >>

BoardEvent(op) == Event(op, FALSE, "none", "none", FALSE, Pos(0, 0))

\* The names the player types (the input upper-cases them): none, a plain
\* one, and ones with a quote or a backslash.
Names == { << >>, << "A" >>, << "\"", "B" >>, << "B", "\\" >> }
\* The final scores of the runs explored.
RunScores == {0, 100, 250}

ANONYMOUS == << "A", "N", "O", "N", "Y", "M", "O", "U", "S" >>
ANON == << "A", "N", "O", "N" >>
SAVED == << "S", "A", "V", "E", "D", "!" >>

\* The initialization effect, its first two lines, and the render that
\* follows a setHighScores: JSON.parse throws on a text that is no JSON, and
\* the render throws on a value it cannot read; nothing catches either.
initializationEffect ==
    /\ startup = "pending"
    /\ ev' = BoardEvent("initializationEffect")
    /\ UNCHANGED << simulationVars, gameState, gameStateRef, score, scoreRef,
                    inputs, user, storage, playerName, saves, placeVars >>
    /\ IF ~storage.present \/ storage.text = << >>
       THEN startup' = "done" /\ UNCHANGED highScores
       ELSE IF ~JSONparse(storage.text).ok
       THEN startup' = "failed" /\ UNCHANGED highScores
       ELSE /\ highScores' = JSONparse(storage.text).v
            /\ startup' = IF renderThrows(JSONparse(storage.text).v)
                          THEN "failed" ELSE "done"

\* The page is loaded again: every state cell is created anew, the stored
\* item stays.
reload ==
    /\ startup # "pending"
    /\ startup' = "pending"
    /\ highScores' = JArr(<< >>)
    /\ playerName' = << >>
    /\ gameState' = "START"
    /\ gameStateRef' = "START"
    /\ score' = 0
    /\ scoreRef' = 0
    /\ saves' = 0
    /\ ev' = BoardEvent("reload")
    /\ UNCHANGED << simulationVars, inputs, user, storage, placeVars >>

\* A run played from the start to its crash, as the game-over screen sees
\* it: the final score, the mode GAME_OVER and, in src/index.tsx, the name
\* cleared.
finishRun ==
    \E points \in RunScores :
        /\ startup = "done"
        /\ gameState \in {"START", "GAME_OVER"}
        /\ gameState' = "GAME_OVER"
        /\ gameStateRef' = "GAME_OVER"
        /\ score' = points
        /\ scoreRef' = points
        /\ playerName' = IF variant = "index" THEN << >> ELSE playerName
        /\ saves' = 0
        /\ ev' = BoardEvent("finishRun")
        /\ UNCHANGED << simulationVars, inputs, user, highScores, storage,
                        startup, placeVars >>

\* onChange of the name input of the game-over screen.
typeName ==
    \E name \in Names :
        /\ startup = "done"
        /\ renderedGameState = "GAME_OVER"
        /\ UserEvent
        /\ playerName' = name
        /\ ev' = BoardEvent("typeName")
        /\ UNCHANGED << simulationVars, gameState, gameStateRef, score, scoreRef,
                        boardVars, placeVars >>

\* A merge that only appends.
newHighScoresAppended(list, newScore) == { Append(list, newScore) }

\* The merge of saveScore: append, sort, keep the first five.
newHighScores(list, newScore) ==
    { slice(l) : l \in sortedByScore(Append(list, newScore)) }

\* What saveScore stores and shows once the merge gave list.
StoreScores(list) ==
    /\ highScores' = JArr(list)
    /\ saves' = saves + 1
    /\ storage' = Item(JSONstringify(JArr(list)))

\* saveScore, the SAVE button of the game-over screen (src/index.tsx goes
\* back to START, part_000 marks the name SAVED! and disables the button).
\* Spreading a highScores that is no array throws, and the handler ends.
saveScore ==
    /\ startup = "done"
    /\ renderedGameState = "GAME_OVER"
    /\ variant = "part" => playerName # SAVED
    /\ UserEvent
    /\ ev' = BoardEvent("saveScore")
    /\ UNCHANGED << simulationVars, score, scoreRef, startup, placeVars >>
    /\ IF highScores.t # "arr"
       THEN UNCHANGED << highScores, storage, saves, playerName, gameState,
                         gameStateRef >>
       ELSE /\ \E list \in newHighScores(
                              highScores.a,
                              HighScore(IF playerName # << >> THEN playerName
                                        ELSE IF variant = "index" THEN ANONYMOUS
                                        ELSE ANON,
                                        score)) :
                  StoreScores(list)
            /\ IF variant = "index"
               THEN /\ gameState' = "START"
                    /\ gameStateRef' = "START"
                    /\ UNCHANGED playerName
               ELSE /\ playerName' = SAVED
                    /\ UNCHANGED << gameState, gameStateRef >>

\* Leaderboards a browser may hold from earlier visits: sorted, at most five
\* entries, equal scores and names with a quote or a backslash among them.
StoredLists ==
    { << >>,
      << HighScore(<< "A" >>, 100) >>,
      << HighScore(<< "A" >>, 250), HighScore(<< "\"", "B" >>, 250),
         HighScore(ANONYMOUS, 150), HighScore(<< "B", "\\" >>, 100),
         HighScore(<< "A" >>, 0) >> }

ValidStored == {NoItem} \cup { Item(JSONstringify(JArr(l))) : l \in StoredLists }

\* Stored items that are no leaderboard: the empty text, texts that are no
\* JSON, and JSON that is no list of { name, score } records.
MalformedStored ==
    { Item(<< >>),
      Item(<< "x" >>),
      Item(<< "[", "{", "\"", "n", "a", "m", "e", "\"", ":", "\"", "A", "\"" >>),
      Item(<< "n", "u", "l", "l" >>),
      Item(<< "{", "}" >>),
      Item(<< "\"", "A", "\"" >>),
      Item(<< "[", "1", "]" >>),
      Item(<< "[", "{", "\"", "n", "a", "m", "e", "\"", ":", "\"", "A", "\"", "}", "]" >>) }

\* The component just created, in a browser that holds one of the items.
InitBoard(items) ==
    /\ InitSimulation
    /\ user = "modes"
    /\ seed = 1
    /\ highScores = JArr(<< >>)
    /\ storage \in items
    /\ playerName = << >>
    /\ startup = "pending"
    /\ saves = 0
    /\ PlaceIdle
    /\ EffectsUntracked

NextScores ==
    \/ initializationEffect
    \/ reload
    \/ finishRun
    \/ typeName
    \/ saveScore

\* src/index.tsx in a browser that holds a leaderboard or none.
InitScores == InitBoard(ValidStored) /\ variant = "index"

SpecScores == InitScores /\ [][NextScores]_vars

\* Both variants in a browser that holds anything at all under the key.
InitStartup == InitBoard(ValidStored \cup MalformedStored)

SpecStartup == InitStartup /\ [][NextScores]_vars

---------------------------------------------------------------------------
(* The placement of src/index.tsx called on its own *)

\* Every cell of the grid.
AllCells == { Pos(x, z) : x \in (-HalfGrid)..(HalfGrid - 1),
                          z \in (-HalfGrid)..(HalfGrid - 1) }

\* A snake that winds through every cell of the grid, row after row.
FullSnake ==
    [i \in 1..(GRID_SIZE * GRID_SIZE) |->
        Pos((IF ((i - 1) \div GRID_SIZE) % 2 = 0
             THEN (i - 1) % GRID_SIZE
             ELSE GRID_SIZE - 1 - ((i - 1) % GRID_SIZE)) - HalfGrid,
            ((i - 1) \div GRID_SIZE) - HalfGrid)]

\* The occupied lists getRandomPosition is called with: nothing, the snake
\* of a new game, every cell but the origin, every cell.
OccupiedSets ==
    { {}, SeqCells(InitialSnake("index")), AllCells \ {Pos(0, 0)}, AllCells }

\* The snakes spawnFood is called with.
PlaceSnakes == { << Pos(0, 0) >>, InitialSnake("index"), FullSnake }

\* One call made from outside the simulation; a behaviour makes MaxInputs
\* of them.
Call(op) ==
    /\ inputs < MaxInputs
    /\ inputs' = inputs + 1
    /\ ev' = BoardEvent(op)

\* getRandomPosition(occupied)
callGetRandomPosition ==
    \E occupied \in OccupiedSets :
        /\ Call("getRandomPosition")
        /\ occupiedArg' = occupied
        /\ placed' = getRandomPosition(occupied, rngPos)
        /\ rngPos' = getRandomPosition(occupied, rngPos).rng
        /\ UNCHANGED << variant, gameState, gameStateRef, score, scoreRef, level,
                        levelRef, timeLeftRef, snakeRef, directionRef,
                        moveQueueRef, foodsRef, powerUpRef, powerUpMeshRef,
                        ghostModeEndTimeRef, speedBoostEndTimeRef,
                        dogPulseEndTimeRef, lastMoveTimeRef, moveIntervalRef,
                        baseLevelSpeedRef, levelStartScoreRef, clock, timers,
                        frames, user, seed, budgetExhausted, boardVars,
                        playerName, fx >>

\* spawnFood()
callSpawnFood ==
    /\ Call("spawnFood")
    /\ StoreSpawn(spawnFoodIndex(foodsRef, snakeRef, powerUpRef, powerUpMeshRef,
                                 levelRef, rngPos))
    /\ UNCHANGED << variant, gameState, gameStateRef, score, scoreRef, level,
                    levelRef, timeLeftRef, snakeRef, directionRef, moveQueueRef,
                    ghostModeEndTimeRef, speedBoostEndTimeRef,
                    dogPulseEndTimeRef, lastMoveTimeRef, moveIntervalRef,
                    baseLevelSpeedRef, levelStartScoreRef, clock, timers,
                    frames, user, seed, boardVars, placeVars, playerName, fx >>

\* The refs spawnFood reads, drawn from the levels and snakes above, and
\* the random stream at its start.
InitPlace ==
    /\ variant = "index"
    /\ gameState = "START"
    /\ gameStateRef = "START"
    /\ score = 0
    /\ scoreRef = 0
    /\ level \in 1..MaxLevel
    /\ levelRef = level
    /\ timeLeftRef = LEVEL_DURATION * 1000
    /\ snakeRef \in PlaceSnakes
    /\ directionRef = Pos(0, -1)
    /\ moveQueueRef = << >>
    /\ foodsRef = << >>
    /\ powerUpRef = NoPowerUp
    /\ powerUpMeshRef = FALSE
    /\ ghostModeEndTimeRef = 0
    /\ speedBoostEndTimeRef = 0
    /\ dogPulseEndTimeRef = 0
    /\ lastMoveTimeRef = 0
    /\ moveIntervalRef = 200
    /\ baseLevelSpeedRef = 200
    /\ levelStartScoreRef = 0
    /\ clock = 0
    /\ timers = {}
    /\ frames = 0
    /\ inputs = 0
    /\ user = "modes"
    /\ seed \in 1..Len(Tapes)
    /\ rngPos = 1
    /\ budgetExhausted = FALSE
    /\ ev = NoEvent
    /\ BoardIdle
    /\ PlaceIdle
    /\ EffectsUntracked

NextPlace ==
    \/ callGetRandomPosition
    \/ callSpawnFood

SpecPlace == InitPlace /\ [][NextPlace]_vars

---------------------------------------------------------------------------
(* Properties *)

\* A tick has been applied since the run or level was last reset: every
\* applied tick takes time off the countdown, every reset refills it.
TickedInRun == timeLeftRef < LEVEL_DURATION * 1000

\* The cell a tick that applies direction d moves the head to.
StepHead(d) == Pos(snakeRef[1].x + d.x, snakeRef[1].z + d.z)

\* nextHead is a cell of the body: a segment other than the head.
HitsBody(d) == \E i \in 2..Len(snakeRef) : SamePos(snakeRef[i], StepHead(d))

Perpendicular(d, e) == d.x * e.x + d.z * e.z = 0

\* C1: in src/index.tsx the direction a tick applies is never the exact
\* negation of the direction the preceding tick of the same run applied.
C1_NoReversalBetweenTicks ==
    [][ (variant = "index" /\ ev'.op = "tick" /\ TickedInRun)
            => ev'.dir # Neg(directionRef) ]_vars

\* C2: in both variants moveQueueRef never holds more than 3 entries.
C2_QueueAtMostThree == Len(moveQueueRef) <= 3

\* C3: in src/index.tsx a direction request, by key or by touch button, that
\* arrives while the mode is not PLAYING leaves the queue and the current
\* direction unchanged.
C3_RequestsIgnoredOutsidePlaying ==
    [][ (variant = "index" /\ ev'.op \in {"key", "touch"} /\ ev'.dir \in Directions
            /\ gameState # "PLAYING")
            => (moveQueueRef' = moveQueueRef /\ directionRef' = directionRef) ]_vars

C5_SnakeInsideGrid ==
    variant = "index" =>
        \A i \in 1..Len(snakeRef) :
            /\ -HalfGrid <= snakeRef[i].x /\ snakeRef[i].x < HalfGrid
            /\ -HalfGrid <= snakeRef[i].z /\ snakeRef[i].z < HalfGrid

\* C6: in both variants, a tick on which invulnerability is not active and
\* nextHead is a cell of the body (the tail cell included) makes the mode
\* GAME_OVER and does not move the snake.
C6_BodyHitEndsRun ==
    [][ (ev'.op = "tick" /\ ev'.dir \in Directions
            /\ ~(clock' + EpochOffset < ghostModeEndTimeRef)
            /\ HitsBody(ev'.dir))
            => (gameState' = "GAME_OVER" /\ snakeRef' = snakeRef) ]_vars

\* C7: in src/index.tsx, once a GHOST power-up was consumed at t0, a tick
\* with a self-intersecting move triggers GAME_OVER exactly when its
\* timestamp is at or after t0 + 10000 ms.
C7_GhostWindow ==
    [][ (variant = "index" /\ ev'.op = "tick" /\ gameState = "PLAYING"
            /\ ghostModeEndTimeRef > 0
            /\ HitsBody(ev'.dir) /\ ~hitWallIndex(StepHead(ev'.dir)))
            => (gameState' = "GAME_OVER"
                    <=> clock' + EpochOffset >= ghostModeEndTimeRef) ]_vars

\* C8: in both variants, after a completed tick, with the mode PLAYING and
\* invulnerability not active, no two segments of the snake share a cell.
C8_NoTwoSegmentsShareCell ==
    (ev.op = "tick" /\ ~ev.collided /\ ev.dir \in Directions
        /\ gameState = "PLAYING" /\ ~(DateNow < ghostModeEndTimeRef))
        => \A i, j \in 1..Len(snakeRef) :
               i # j => ~SamePos(snakeRef[i], snakeRef[j])

\* C9: in both variants a tick that is no collision leaves the length of
\* the snake unchanged when no food lay on nextHead (a power-up or not),
\* and makes it one longer when a food did.
C9_LengthChangesOnlyByFood ==
    [][ (ev'.op = "tick" /\ ev'.dir \in Directions /\ ~ev'.collided)
            => Len(snakeRef') = Len(snakeRef)
                 + (IF \E i \in 1..Len(foodsRef) :
                          SamePos(foodsRef[i], StepHead(ev'.dir))
                    THEN 1 ELSE 0) ]_vars

\* A tick consumed a power-up and no food, with a snake that foods made
\* longer before.
C9_Witness ==
    /\ ev.op = "tick"
    /\ ~ev.collided
    /\ ev.ate = "none"
    /\ ev.atePU # "none"
    /\ Len(snakeRef) > Len(InitialSnake(variant))

\* C10: in src/index.tsx, in every state whose mode is PLAYING the number
\* of live foods is the level number times the foods per level.
C10_FoodsMatchLevel ==
    (variant = "index" /\ gameState = "PLAYING")
        => Len(foodsRef) = level * FoodsPerLevel

\* C11: in both variants, on a food-eating tick whose placements did not
\* run out of tries, the replacement food lies, when the tick ends, on a
\* cell held neither by the snake (the new head included), nor by another
\* live food, nor by the live power-up.
C11_ReplacementOnFreeCell ==
    [][ (ev'.op = "tick" /\ ev'.ate # "none" /\ ~budgetExhausted')
            => LET f == foodsRef'[Len(foodsRef')] IN
               /\ ~Occupies(SeqCells(snakeRef'), f)
               /\ \A i \in 1..(Len(foodsRef') - 1) : ~SamePos(foodsRef'[i], f)
               /\ powerUpRef' # NoPowerUp => ~SamePos(powerUpRef', f) ]_vars

\* C12: in src/index.tsx the level-advance callback that nextLevel scheduled
\* changes nothing when the mode is no longer LEVEL_TRANSITION as it fires:
\* level, base interval, countdown, snake, foods and mode stay as they are.
C12_StaleLevelTimeoutIgnored ==
    [][ (variant = "index" /\ ev'.op = "levelTimeout"
            /\ gameState # "LEVEL_TRANSITION")
            => UNCHANGED << level, baseLevelSpeedRef, timeLeftRef, snakeRef,
                            foodsRef, gameState >> ]_vars

\* C13: in src/index.tsx the tick of a PLAYING run on which the countdown
\* reaches 0 makes the mode LEVEL_TRANSITION and schedules the advance
\* 4000 ms later; the advance does not fire earlier, and when it fires in
\* LEVEL_TRANSITION the level is the old level + 1, the countdown is
\* LEVEL_DURATION, the base interval is max(50, old base - 15), the tick
\* interval is the new base and the mode is PLAYING.
C13_LevelAdvance ==
    [][ variant = "index" =>
          /\ (ev'.op = "tick" /\ gameState = "PLAYING"
                 /\ timeLeftRef > 0 /\ timeLeftRef' <= 0)
                => /\ gameState' = "LEVEL_TRANSITION"
                   /\ [kind |-> "level", due |-> clock' + 4000] \in timers'
          /\ (ev'.op = "levelTimeout" /\ gameState = "LEVEL_TRANSITION")
                => /\ \A t \in timers \ timers' : clock >= t.due
                   /\ level' = level + 1
                   /\ timeLeftRef' = LEVEL_DURATION * 1000
                   /\ baseLevelSpeedRef' = Max(50, baseLevelSpeedRef - 15)
                   /\ moveIntervalRef' = baseLevelSpeedRef'
                   /\ gameState' = "PLAYING" ]_vars

\* The advance fired after a level that foods had made faster than its base.
C13_Witness ==
    /\ variant = "index"
    /\ ev.op = "levelTimeout"
    /\ gameState = "PLAYING"
    /\ level = 2
    /\ baseLevelSpeedRef = 185
    /\ moveIntervalRef = 185
    /\ timeLeftRef = LEVEL_DURATION * 1000
    /\ score > 0

\* C14: in src/index.tsx no tick runs while the mode is PAUSED,
\* LEVEL_TRANSITION, GAME_OVER or START: updateGameLogic executes only in a
\* state whose mode is PLAYING.
C14_TicksOnlyWhilePlaying ==
    [][ (variant = "index" /\ ev'.op = "tick") => gameState = "PLAYING" ]_vars

\* C15: in src/index.tsx retryLevel invoked in GAME_OVER sets the score to
\* the level-start snapshot, the snake to [(0,2),(0,3),(0,4)] heading (0,-1)
\* with an empty queue, the countdown to LEVEL_DURATION and the mode to
\* PLAYING.
C15_RetryRestoresLevelStart ==
    [][ (variant = "index" /\ ev'.op = "retryLevel" /\ gameState = "GAME_OVER")
            => /\ score' = levelStartScoreRef
               /\ snakeRef' = << Pos(0, 2), Pos(0, 3), Pos(0, 4) >>
               /\ directionRef' = Pos(0, -1)
               /\ moveQueueRef' = << >>
               /\ timeLeftRef' = LEVEL_DURATION * 1000
               /\ gameState' = "PLAYING" ]_vars

\* A retry of level 2, started with a snapshot above 0.
C15_Witness ==
    /\ variant = "index"
    /\ ev.op = "retryLevel"
    /\ gameState = "PLAYING"
    /\ level = 2
    /\ levelStartScoreRef > 0
    /\ score = levelStartScoreRef

\* C16: in src/index.tsx retryLevel leaves the level and the base interval
\* of the level unchanged and makes the tick interval that base; the tick
\* that follows the retry is gated by the base interval: it runs only when
\* more than the base interval has elapsed since the last tick.
C16_RetryRestoresBaseInterval ==
    [][ variant = "index" =>
          /\ ev'.op = "retryLevel"
                => /\ level' = level
                   /\ baseLevelSpeedRef' = baseLevelSpeedRef
                   /\ moveIntervalRef' = baseLevelSpeedRef
          /\ (ev.op = "retryLevel" /\ ev'.op = "tick")
                => clock' - lastMoveTimeRef > baseLevelSpeedRef ]_vars

\* C17: in src/index.tsx a start request (startGame, the F2 shortcut
\* included) issued while the mode is PLAYING, PAUSED or LEVEL_TRANSITION
\* changes neither the mode nor the score, level, countdown, snake or foods.
C17_StartOnlyFromStartOrGameOver ==
    [][ (variant = "index" /\ ev'.op = "startGame"
            /\ gameState \in {"PLAYING", "PAUSED", "LEVEL_TRANSITION"})
            => UNCHANGED << gameState, score, level, timeLeftRef, snakeRef,
                            foodsRef >> ]_vars

\* C18: in both variants, after startGame the state is reset whatever the
\* previous run left: score 0, level 1, level-start snapshot 0, countdown
\* LEVEL_DURATION, tick and base interval 200, invulnerability and speed
\* boost inactive, the snake in its initial configuration heading (0,-1),
\* the queue empty, no power-up left over (a live power-up is one this
\* start placed, which only src/index.tsx does, with its mesh), foods for
\* level 1, mode PLAYING.
C18_StartResetsEverything ==
    [][ ev'.op = "startGame"
            => /\ score' = 0
               /\ level' = 1
               /\ levelStartScoreRef' = 0
               /\ timeLeftRef' = LEVEL_DURATION * 1000
               /\ moveIntervalRef' = 200
               /\ baseLevelSpeedRef' = 200
               /\ ~(clock' + EpochOffset < ghostModeEndTimeRef')
               /\ ~(clock' + EpochOffset < speedBoostEndTimeRef')
               /\ snakeRef' = (IF variant = "index"
                               THEN << Pos(0, 2), Pos(0, 3), Pos(0, 4) >>
                               ELSE << Pos(0, 0) >>)
               /\ directionRef' = Pos(0, -1)
               /\ moveQueueRef' = << >>
               /\ powerUpRef' # NoPowerUp => (variant = "index" /\ powerUpMeshRef')
               /\ Len(foodsRef') = 1 * FoodsPerLevel
               /\ gameState' = "PLAYING" ]_vars

\* C19: in both variants togglePause changes the mode only from PLAYING to
\* PAUSED and from PAUSED to PLAYING, invoked in START, LEVEL_TRANSITION or
\* GAME_OVER it changes nothing, and neither a pause nor a resume changes
\* snake, foods, power-up, score, level, countdown or tick interval (no tick
\* runs in between, while PAUSED).
C19_TogglePauseOnlyTogglesPause ==
    [][ /\ ev'.op = "togglePause"
            => /\ \/ gameState = "PLAYING" /\ gameState' = "PAUSED"
                  \/ gameState = "PAUSED" /\ gameState' = "PLAYING"
                  \/ gameState \notin {"PLAYING", "PAUSED"} /\ gameState' = gameState
               /\ UNCHANGED << snakeRef, foodsRef, powerUpRef, score, level,
                               timeLeftRef, moveIntervalRef >>
        /\ ev'.op = "tick" => gameState # "PAUSED" ]_vars

\* C20: in src/index.tsx, on a tick where a live food and the live power-up
\* both lie on nextHead, the food is consumed and the snake grows, and the
\* power-up is not consumed on that tick: it stays live, and no power-up
\* score and no status effect is applied.
C20_FoodBeforePowerUp ==
    [][ (variant = "index" /\ ev'.op = "tick" /\ ~ev'.collided
            /\ powerUpRef # NoPowerUp
            /\ SamePos(powerUpRef, StepHead(ev'.dir))
            /\ \E i \in 1..Len(foodsRef) : SamePos(foodsRef[i], StepHead(ev'.dir)))
            => /\ Len(snakeRef') = Len(snakeRef) + 1
               /\ ev'.ate # "none"
               /\ powerUpRef' = powerUpRef
               /\ score' - score \in {100, 150}
               /\ UNCHANGED << ghostModeEndTimeRef, speedBoostEndTimeRef >> ]_vars

\* The points the food a tick consumed is worth (0 when it consumed none).
FoodPoints(type) ==
    IF type = "FRIES" THEN 150 ELSE IF type = "HOTDOG" THEN 100 ELSE 0

\* C21: in both variants a tick that consumes a power-up applies exactly one
\* effect: MUSTARD changes only the score; GHOST only sets the
\* invulnerability expiry to now + 10000 and adds nothing to the score;
\* BURGER only sets the boost expiry to now + 8000 and the pulse timer and
\* adds nothing to the score (the points of a food consumed on the same tick
\* set apart).
C21_PowerUpOneEffect ==
    [][ (ev'.op = "tick" /\ ev'.atePU # "none")
            => LET now == clock' + EpochOffset
                   gained == score' - score - FoodPoints(ev'.ate)
               IN
               /\ ev'.atePU = "MUSTARD"
                     => /\ gained > 0
                        /\ UNCHANGED << ghostModeEndTimeRef, speedBoostEndTimeRef,
                                        dogPulseEndTimeRef >>
               /\ ev'.atePU = "GHOST"
                     => /\ gained = 0
                        /\ ghostModeEndTimeRef' = now + 10000
                        /\ UNCHANGED << speedBoostEndTimeRef, dogPulseEndTimeRef >>
               /\ ev'.atePU = "BURGER"
                     => /\ gained = 0
                        /\ speedBoostEndTimeRef' = now + 8000
                        /\ dogPulseEndTimeRef' > now
                        /\ UNCHANGED ghostModeEndTimeRef ]_vars

\* C22: in both variants a live power-up is never replaced or moved by a
\* spawn: once live it stays the same power-up on the same cell until the
\* tick that consumes it or until a reset (a new game, a retry or the start
\* of the next level).
C22_LivePowerUpNotReplaced ==
    [][ (powerUpRef # NoPowerUp /\ powerUpRef' # powerUpRef)
            => \/ ev'.op = "tick" /\ ev'.atePU # "none" /\ powerUpRef' = NoPowerUp
                  /\ SamePos(powerUpRef, StepHead(ev'.dir))
               \/ ev'.op \in {"startGame", "retryLevel", "levelTimeout"} ]_vars

\* C25: in both variants a tick that is no collision takes the effective
\* tick interval that gated it off the countdown: 60 ms when the speed boost
\* is active on that frame, the tick interval otherwise (the interval
\* before or after the tick's own food speed-up).
C25_CountdownByEffectiveInterval ==
    [][ (ev'.op = "tick" /\ ~ev'.collided)
            => timeLeftRef - timeLeftRef'
                 \in (IF clock' + EpochOffset < speedBoostEndTimeRef
                      THEN {60}
                      ELSE {moveIntervalRef, moveIntervalRef'}) ]_vars

\* C26: in both variants a collision tick stops processing: the mode becomes
\* GAME_OVER and the snake, the live foods, the live power-up, the score,
\* the tick interval and the countdown are what they were before the tick.
C26_CollisionFreezes ==
    [][ (ev'.op = "tick" /\ ev'.collided)
            => /\ gameState' = "GAME_OVER"
               /\ UNCHANGED << snakeRef, foodsRef, powerUpRef, score,
                               moveIntervalRef, timeLeftRef >> ]_vars

\* C23: in src/index.tsx the tick interval and the base interval are never
\* below 50 ms; within one run (until the next startGame) the base interval
\* never increases; a level advance makes it max(50, base - 15) and a tick
\* that consumes a food makes the tick interval max(50, interval - 2).
C23_IntervalsFlooredAndFalling ==
    [][ variant = "index" =>
          /\ moveIntervalRef' >= 50
          /\ baseLevelSpeedRef' >= 50
          /\ ev'.op # "startGame" => baseLevelSpeedRef' <= baseLevelSpeedRef
          /\ ev'.op = "levelTimeout"
                => baseLevelSpeedRef' = (IF baseLevelSpeedRef - 15 > 50
                                         THEN baseLevelSpeedRef - 15 ELSE 50)
          /\ (ev'.op = "tick" /\ ev'.ate # "none")
                => moveIntervalRef' = (IF moveIntervalRef - 2 > 50
                                       THEN moveIntervalRef - 2 ELSE 50) ]_vars

\* A food was consumed in the level after LateLevel, whose base interval
\* the floor made 50: the tick interval stayed at the floor.
C23_Witness ==
    /\ variant = "index"
    /\ level = LateLevel + 1
    /\ baseLevelSpeedRef = 50
    /\ ev.op = "tick"
    /\ ev.ate # "none"
    /\ moveIntervalRef = 50

\* C24: in src/index.tsx, in every state in which the speed boost is active
\* the interval animate uses under the boost (60 ms) is not larger than the
\* interval it would use without the boost (the tick interval).
C24_BoostNeverSlower ==
    (variant = "index" /\ DateNow < speedBoostEndTimeRef) => 60 <= moveIntervalRef

\* C27: in src/index.tsx a tick that consumes a food and no power-up adds
\* exactly the value of the food to the score (100 for a HOTDOG, 150 for
\* FRIES) and makes the tick interval max(50, interval - 2); a tick that is
\* no collision and consumes neither a food nor a power-up leaves the score
\* and the tick interval unchanged.
C27_FoodScoreAndSpeedUp ==
    [][ (variant = "index" /\ ev'.op = "tick" /\ ~ev'.collided
            /\ ev'.atePU = "none")
            => LET i == FindFoodIndex(foodsRef, StepHead(ev'.dir)) IN
               IF i # 0
               THEN /\ foodsRef[i].type = "HOTDOG" => score' = score + 100
                    /\ foodsRef[i].type = "FRIES" => score' = score + 150
                    /\ moveIntervalRef' = (IF moveIntervalRef - 2 > 50
                                           THEN moveIntervalRef - 2 ELSE 50)
               ELSE UNCHANGED << score, moveIntervalRef >> ]_vars

\* FRIES were consumed, and no power-up, on a tick whose interval was
\* already at the floor.
C27_Witness ==
    /\ variant = "index"
    /\ ev.op = "tick"
    /\ ev.ate = "FRIES"
    /\ ev.atePU = "none"
    /\ score = 150
    /\ moveIntervalRef = 50
    /\ Len(snakeRef) = 4

\* A leaderboard as the claims describe it: a list of at most five entries
\* with a score each, no score larger than the one before it.
SortedBoard(v) ==
    /\ v.t = "arr"
    /\ Len(v.a) <= 5
    /\ \A i \in 1..Len(v.a) : HasScore(v.a[i])
    /\ \A i \in 1..(Len(v.a) - 1) : ScoreOf(v.a[i]) >= ScoreOf(v.a[i + 1])

\* C28: in src/index.tsx, starting from a stored list that is sorted and has
\* at most five entries, after any sequence of saveScore the stored text is a
\* list sorted descending by score with at most five entries, and the list in
\* memory once loaded is the stored one, so that loads without a save in
\* between all give the same list.
C28_SavedBoardSortedAndStable ==
    /\ storage.present =>
          /\ JSONparse(storage.text).ok
          /\ SortedBoard(JSONparse(storage.text).v)
    /\ startup = "done" =>
          highScores = IF storage.present THEN JSONparse(storage.text).v
                       ELSE JArr(<< >>)

\* A list of five, loaded again after a save that put a new entry on top of
\* an equal score and dropped the last one.
C28_Witness ==
    /\ variant = "index"
    /\ ev.op = "initializationEffect"
    /\ startup = "done"
    /\ Len(highScores.a) = 5
    /\ highScores.a[3] = HighScore(<< "B", "\\" >>, 250)
    /\ ScoreOf(highScores.a[5]) = 100

\* A list of { name, score } records.
IsLeaderboard(v) ==
    /\ v.t = "arr"
    /\ \A i \in 1..Len(v.a) :
          /\ Get(v.a[i], NameKey).t = "str"
          /\ Get(v.a[i], ScoreKey).t = "num"

\* The stored value is absent or malformed.
AbsentOrMalformed(item) ==
    \/ ~item.present
    \/ ~JSONparse(item.text).ok
    \/ ~IsLeaderboard(JSONparse(item.text).v)

\* C29: in both variants, when the stored leaderboard is absent or malformed
\* (no JSON, or no list of { name, score } records), the load at startup does
\* not fail and leaves the empty list in memory.
C29_MalformedBoardLoadsEmpty ==
    [][ (ev'.op = "initializationEffect" /\ AbsentOrMalformed(storage))
            => /\ startup' = "done"
               /\ highScores' = JArr(<< >>) ]_vars

InGrid(p) ==
    /\ -HalfGrid <= p.x /\ p.x <= HalfGrid - 1
    /\ -HalfGrid <= p.z /\ p.z <= HalfGrid - 1

\* The candidate getRandomPosition draws at its try number k + 1 when the
\* stream stands at pos.
RECURSIVE CandidateAfter(_, _)
CandidateAfter(pos, k) ==
    IF k = 0 THEN Candidate(pos) ELSE CandidateAfter(Advance(Advance(pos)), k - 1)

\* C30: in src/index.tsx, getRandomPosition ends within its budget of
\* candidates for every occupied list, the full grid included, returns a
\* cell of the grid, and returns an occupied cell only when every candidate
\* of the budget was occupied; spawnFood ends with the target count of foods
\* live.
C30_PlacementBounded ==
    [][ /\ ev'.op = "getRandomPosition" =>
              /\ placed'.tries \in 1..TryBudget
              /\ InGrid(placed'.pos)
              /\ placed'.pos = CandidateAfter(rngPos, placed'.tries - 1)
              /\ \A k \in 0..(placed'.tries - 2) :
                    Occupies(occupiedArg', CandidateAfter(rngPos, k))
              /\ Occupies(occupiedArg', placed'.pos) =>
                    placed'.tries = TryBudget
        /\ ev'.op = "spawnFood" =>
              /\ Len(foodsRef') = (IF Len(foodsRef) > levelRef * FoodsPerLevel
                                   THEN Len(foodsRef)
                                   ELSE levelRef * FoodsPerLevel)
              /\ \A i \in 1..Len(foodsRef') : InGrid(CellOf(foodsRef'[i]))
      ]_vars

\* The whole grid is occupied and the search gave up at its last try.
C30_Witness ==
    /\ ev.op = "getRandomPosition"
    /\ occupiedArg = AllCells
    /\ placed.tries = TryBudget
    /\ Occupies(occupiedArg, placed.pos)

\* C34: in src/index.tsx no tick runs between the tick that calls nextLevel
\* or requests GAME_OVER and the moment gameStateRef shows the new mode: a
\* tick schedules a level advance only in a run whose mode is PLAYING, so
\* one expiry schedules one advance, and no tick moves the snake once a
\* collision has made the mode GAME_OVER.
C34_OneAdvancePerExpiry ==
    [][ (variant = "index" /\ ev'.op = "tick") =>
          /\ timers' # timers => gameState = "PLAYING"
          /\ gameState = "GAME_OVER" => snakeRef' = snakeRef ]_vars

\* C35: in both variants, unless a placement used up its tries, a tick that
\* spawns a power-up leaves it on a cell the snake does not occupy at the end
\* of the tick, the head cell just entered included, and the power-up a tick
\* consumes is the one that was live on the entered cell before the tick.
C35_SpawnedPowerUpOffSnake ==
    [][ (ev'.op = "tick" /\ ~budgetExhausted') =>
          /\ (powerUpRef' # NoPowerUp /\ powerUpRef' # powerUpRef)
                => ~Occupies(SeqCells(snakeRef'), CellOf(powerUpRef'))
          /\ ev'.atePU # "none"
                => /\ powerUpRef # NoPowerUp
                   /\ SamePos(powerUpRef, StepHead(ev'.dir)) ]_vars

\* C36: in both variants the power-up and its mesh exist together in every
\* reachable state: powerUpRef is non-null exactly when powerUpMeshRef is.
C36_PowerUpHasMesh == (powerUpRef # NoPowerUp) <=> powerUpMeshRef

\* C37: in both variants status effects do not carry over into a retried or
\* a new level: right after retryLevel and right after a level advance
\* neither invulnerability nor the speed boost is active.
C37_EffectsEndWithLevel ==
    [][ ev'.op \in {"retryLevel", "levelTimeout"} =>
          /\ ~(clock' + EpochOffset < ghostModeEndTimeRef')
          /\ ~(clock' + EpochOffset < speedBoostEndTimeRef') ]_vars

\* What is left of a status effect that ends at expiry.
Remaining(expiry, now) == IF expiry > now THEN expiry - now ELSE 0

\* C38: in src/index.tsx time spent in PAUSED does not use up a status
\* effect: from the pause to the resume, frame after frame, what is left of
\* invulnerability and of the speed boost stays what it was.
C38_PauseKeepsEffects ==
    [][ (variant = "index" /\ gameState = "PAUSED" /\ gameStateRef = "PAUSED"
            /\ ev'.op \in {"frame", "togglePause"})
            => /\ Remaining(ghostModeEndTimeRef', clock' + EpochOffset)
                    = Remaining(ghostModeEndTimeRef, clock + EpochOffset)
               /\ Remaining(speedBoostEndTimeRef', clock' + EpochOffset)
                    = Remaining(speedBoostEndTimeRef, clock + EpochOffset) ]_vars

\* C39: in both variants the result of one game over is recorded in the
\* leaderboard at most once, whatever is typed in the name field after the
\* save.
C39_OneSavePerGameOver == saves <= 1

---------------------------------------------------------------------------
(* The effects and the simulation *)

\* The simulation state of src/index.tsx: snake, direction, input queue,
\* foods, power-up, score, level, countdown, tick intervals, expiries, mode.
simulationState ==
    << snakeRef, directionRef, moveQueueRef, foodsRef, powerUpRef,
       powerUpMeshRef, score, scoreRef, level, levelRef, timeLeftRef,
       moveIntervalRef, baseLevelSpeedRef, levelStartScoreRef,
       ghostModeEndTimeRef, speedBoostEndTimeRef, gameState, gameStateRef >>

Prefix(s, t) == Len(t) >= Len(s) /\ SubSeq(t, 1, Len(s)) = s

\* The batches of before are the first ones after, each one step older.
Advanced(before, after, decay) == Prefix(Decayed(before, decay), after)

\* C32: on every frame callback of src/index.tsx, in every mode, every live
\* particle of every list is advanced one step: its life decreases by the
\* decay of its list, and it is removed once its life is <= 0.
C32_EveryFrameAdvancesAll ==
    [][ ev'.op \in {"frame", "tick"}
            => /\ Advanced(fx.trail, fx'.trail, 20)
               /\ Advanced(fx.ghost, fx'.ghost, 20)
               /\ Advanced(fx.confetti, fx'.confetti, 20)
               /\ Advanced(fx.fireworks, fx'.fireworks, 15)
               /\ \E fell \in BOOLEAN :
                      Prefix(updateCrashParticles(fx, fell).crash, fx'.crash) ]_vars

\* C33: a firework burst scheduled by nextLevel creates particles only
\* while the mode is LEVEL_TRANSITION; none is created in PLAYING, PAUSED,
\* GAME_OVER or START.
C33_FireworksOnlyInTransition ==
    [][ ev'.op = "spawnFirework"
            => (gameState = "LEVEL_TRANSITION"
                \/ gameStateRef = "LEVEL_TRANSITION") ]_vars

====
